---- MODULE Spec2Model ----
(***************************************************************************)
(* Model of the Ollama Cloud proxy core: the key pool and its rotation     *)
(* cursor (Config), the per-key rotation loop (fetchWithKeyRotation), the  *)
(* non-streaming retry envelope (sendMessage / sendOpenAIMessage), the     *)
(* streaming connection phase and read loop (sendMessageStream /           *)
(* sendOpenAIMessageStream), the stream translators, the request and       *)
(* response converters (converter.js), the configuration load and the      *)
(* routes GET /v1/models and POST /v1/messages (server.js).                *)
(*                                                                         *)
(* A call is suspended only at an await: the steps of a call between two   *)
(* awaits are one action.                                                  *)
(***************************************************************************)
EXTENDS Integers, Sequences, FiniteSets, TLC

\* ------------------------------------------------------------------ bounds
MaxKeys == 3
NumCalls == 2
MaxLines == 3

\* --------------------------------------------------------- program constants
MAX_RETRIES == 3
RETRY_DELAY_MS == 1000
ROTATE_429_DELAY_MS == 1000

VARIABLES
    apiKey,           \* config.apiKey: the single-key field ("" for null)
    apiKeys,          \* config.apiKeys: the key pool, loaded once
    currentKeyIndex,  \* config.currentKeyIndex: the rotation cursor (0-based)
    upstream,         \* what upstream answers to a dispatch carrying each key
    upstreamBody,     \* the lines upstream sends as the body of a 200 response
    tracing,          \* whether the exchanges record their steps in call[c].log
    call              \* per exchange: the locals of the running async function

vars == <<apiKey, apiKeys, currentKeyIndex, upstream, upstreamBody, tracing, call>>

Calls == 1..NumCalls
KeyNames == <<"key1", "key2", "key3", "key4", "key5">>

\* ------------------------------------------------------------------ errors
\* An Error is its message, a sequence of text pieces; undefined is <<>>.
NoError == <<>>
ErrNoKey == <<"No API key configured">>
ErrExhausted == <<"All API keys exhausted">>
ErrMaxRetries == <<"Max retries exceeded">>
ErrAuth == <<"authentication_error", ": All API keys invalid">>
ErrNoBody == <<"No response body">>
ErrUndefinedResponse == <<"Cannot read properties of undefined (reading 'ok')">>

StatusText(s) ==
    CASE s = 200 -> "200"
      [] s = 401 -> "401"
      [] s = 429 -> "429"
      [] s = 500 -> "500"
      [] OTHER -> "0"

ErrListModels(s) == <<"Failed to list models: ", StatusText(s), " - ", "body">>
ErrApi(s) == <<"API error ", StatusText(s), ": ", "body">>

Includes(msg, piece) == \E i \in 1..Len(msg) : msg[i] = piece

NetworkMarkers == {"ECONNREFUSED", "ENOTFOUND", "ETIMEDOUT", "socket hang up", "fetch failed"}

isNetworkError(error) == \E m \in NetworkMarkers : Includes(error, m)

\* server.js parseError: the error type the front door reports
parseError(error) ==
    IF Includes(error, "401") \/ Includes(error, "authentication_error")
        THEN "authentication_error"
    ELSE IF Includes(error, "429") \/ Includes(error, "rate_limit")
        THEN "rate_limit_error"
    ELSE IF Includes(error, "invalid_request_error")
        THEN "invalid_request_error"
    ELSE "api_error"

\* server.js parseError: the status code that goes with the error type
statusCode(error) ==
    CASE parseError(error) = "authentication_error" -> 401
      [] parseError(error) = "rate_limit_error" -> 429
      [] parseError(error) = "invalid_request_error" -> 400
      [] OTHER -> 500

\* server.js parseError: the message the front door reports
errorMessage(error) ==
    CASE parseError(error) = "authentication_error" ->
             <<"Authentication failed. Please check your OLLAMA_API_KEY.">>
      [] parseError(error) = "rate_limit_error" ->
             <<"Rate limit exceeded. Please wait before retrying.">>
      [] OTHER -> error

ErrKeyRequired ==
    <<"API key required. Set OLLAMA_API_KEY environment variable.">>
ErrKeysRequired ==
    <<"API key required. Set OLLAMA_API_KEY environment variable or apiKeys in config.json.">>
ErrMessagesRequired == <<"messages is required and must be an array">>

\* ---------------------------------------------------------------- upstream
Status(s) == [type |-> "status", status |-> s]
Thrown(msg) == [type |-> "throw", error |-> msg]
Outcomes ==
    {Status(200), Status(401), Status(429), Status(500),
     Thrown(<<"fetch failed">>), Thrown(<<"The operation was aborted">>)}

ok(status) == status >= 200 /\ status <= 299

\* ------------------------------------------------------------------ Config
getApiKeys == apiKeys

\* getApiKey with the cursor at idx; "" stands for null
getApiKey(idx) ==
    IF Len(apiKeys) = 0 THEN "" ELSE apiKeys[(idx % Len(apiKeys)) + 1]

\* a rotation that forgets to wrap around
rotateApiKey_noWrap(idx) ==
    IF Len(apiKeys) > 1 THEN idx + 1 ELSE idx

\* a rotation that moves the cursor by two
rotateApiKey_byTwo(idx) ==
    IF Len(apiKeys) > 1 THEN (idx + 2) % Len(apiKeys) ELSE idx

\* a rotation that does not move the cursor
rotateApiKey_stuck(idx) == idx

\* rotateApiKey: the cursor after one rotation from idx
rotateApiKey(idx) ==
    IF Len(apiKeys) > 1 THEN (idx + 1) % Len(apiKeys) ELSE idx

\* config.json: absent or unreadable, or its apiKey and apiKeys fields laid
\* over the defaults (null, [])
NoFile == [exists |-> FALSE]
File(k, ks) == [exists |-> TRUE, apiKey |-> k, apiKeys |-> ks]

\* an environment variable: unset or empty, or the items between its commas,
\* trimmed
Unset == [set |-> FALSE]
Items(items) == [set |-> TRUE, items |-> items]

\* .filter(Boolean): the items that are not empty
RECURSIVE filterBoolean(_)
filterBoolean(items) ==
    IF items = <<>> THEN <<>>
    ELSE (IF Head(items) = "" THEN <<>> ELSE <<Head(items)>>)
             \o filterBoolean(Tail(items))

\* loadConfig: config.apiKey and config.apiKeys after the constructor
loadConfig(file, env) ==
    LET merged ==
            IF file.exists
                THEN [apiKey |-> file.apiKey,
                      apiKeys |-> IF file.apiKey # "" /\ Len(file.apiKeys) = 0
                                      THEN <<file.apiKey>> ELSE file.apiKeys]
                ELSE [apiKey |-> "", apiKeys |-> <<>>]
        ollama ==
            IF env.OLLAMA_API_KEY.set
                THEN [merged EXCEPT !.apiKeys = filterBoolean(env.OLLAMA_API_KEY.items)]
                ELSE merged
    IN  IF env.ANTHROPIC_API_KEY.set
            THEN [ollama EXCEPT !.apiKeys = filterBoolean(env.ANTHROPIC_API_KEY.items)]
            ELSE ollama

\* ------------------------------------------------------------ stream bytes
\* A body is a sequence of bytes. A byte is a newline, a blank, a colon, a
\* brace, a piece of garbage, or one whole JSON member (name, text or number):
\* a chunk boundary may fall between any two of them.
Byte(b, v, n) == [b |-> b, v |-> v, n |-> n]
NL == Byte("\n", "", 0)
Blank == Byte(" ", "", 0)
Colon == Byte(":", "", 0)
Open == Byte("{", "", 0)
Close == Byte("}", "", 0)
Garbage == Byte("x", "", 0)
MemberNames == {"content", "thinking", "done", "eval_count", "prompt_eval_count"}

\* buffer.split('\n'): the pieces between newlines, the last one the residue
RECURSIVE split(_)
split(s) ==
    IF \A i \in 1..Len(s) : s[i] # NL
        THEN <<s>>
        ELSE LET i == CHOOSE j \in 1..Len(s) :
                          s[j] = NL /\ \A h \in 1..(j - 1) : s[h] # NL
             IN  <<SubSeq(s, 1, i - 1)>> \o split(SubSeq(s, i + 1, Len(s)))

Front(s) == SubSeq(s, 1, Len(s) - 1)
Last(s) == s[Len(s)]

\* !line.trim() || line.startsWith(':')
skipped(line) ==
    \/ \A i \in 1..Len(line) : line[i] = Blank
    \/ Len(line) > 0 /\ line[1] = Colon

\* whether JSON.parse(line) returns rather than throws
parses(line) ==
    /\ Len(line) >= 2
    /\ line[1] = Open
    /\ line[Len(line)] = Close
    /\ \A i \in 2..(Len(line) - 1) : line[i].b \in MemberNames

Has(line, name) == \E i \in 2..(Len(line) - 1) : line[i].b = name
Member(line, name) ==
    line[CHOOSE i \in 2..(Len(line) - 1) :
             line[i].b = name /\ \A j \in (i + 1)..(Len(line) - 1) : line[j].b # name]

\* A text is a sequence of pieces; the empty string is <<>>.
Text(v) == IF v = "" THEN <<>> ELSE <<v>>

\* JSON.parse(line) of a line that parses: the members the translators read;
\* an absent member is undefined (has* FALSE, value 0 or <<>>)
JSONparse(line) ==
    [hasMessage |-> Has(line, "content") \/ Has(line, "thinking"),
     hasContent |-> Has(line, "content"),
     content |-> IF Has(line, "content")
                     THEN Text(Member(line, "content").v) ELSE <<>>,
     thinking |-> IF Has(line, "thinking")
                      THEN Text(Member(line, "thinking").v) ELSE <<>>,
     done |-> Has(line, "done") /\ Member(line, "done").v = "true",
     eval_count |-> IF Has(line, "eval_count")
                        THEN Member(line, "eval_count").n ELSE 0,
     prompt_eval_count |-> IF Has(line, "prompt_eval_count")
                               THEN Member(line, "prompt_eval_count").n ELSE 0]

\* ------------------------------------------------------------------ bodies
LineA == <<Open, Byte("content", "a", 0), Close>>
LineB == <<Open, Byte("content", "b", 0), Close>>
LineStop ==
    <<Open, Byte("done", "true", 0), Byte("prompt_eval_count", "", 2),
      Byte("eval_count", "", 3), Close>>
LineStopA ==
    <<Open, Byte("content", "a", 0), Byte("done", "true", 0),
      Byte("eval_count", "", 3), Close>>
LineThink == <<Open, Byte("content", "", 0), Byte("thinking", "t", 0), Close>>
LineEmpty == <<Open, Byte("content", "", 0), Close>>
LineBad == <<Open, Byte("content", "a", 0)>>
LineBlank == <<>>
LineComment == <<Colon, Garbage>>

LineTexts ==
    {LineA, LineB, LineStop, LineStopA, LineThink, LineEmpty, LineBad,
     LineBlank, LineComment}

\* the lines joined by newlines; the last one newline-terminated or not
RECURSIVE joined(_, _)
joined(ls, terminated) ==
    IF ls = <<>> THEN <<>>
    ELSE IF Len(ls) = 1
        THEN Head(ls) \o (IF terminated THEN <<NL>> ELSE <<>>)
    ELSE Head(ls) \o <<NL>> \o joined(Tail(ls), terminated)

\* the bytes of the body upstream sends
bodyBytes == joined(upstreamBody.lines, upstreamBody.terminated)

LineSeqs == UNION {[1..n -> LineTexts] : n \in 0..MaxLines}
Bodies == [lines : LineSeqs, terminated : BOOLEAN]

\* --------------------------------------------------------------- converter
\* A request is [system, messages]; a message is [role, content]; a content is
\* a string, an array of blocks, or neither (null).
String(t) == [type |-> "string", text |-> Text(t)]
Array(blocks) == [type |-> "array", blocks |-> blocks]
Null == [type |-> "null"]
TextBlock(t) == [type |-> "text", text |-> Text(t)]
ToolUseBlock == [type |-> "tool_use", name |-> "f", input |-> "{}"]
ToolResultBlock == [type |-> "tool_result", content |-> "r"]
ImagePart == [type |-> "image_url", url |-> "u"]
NoBody == [type |-> "none"]

\* a text block that brings a blank along with its text
blockText_padded(block) ==
    IF block.type = "text" THEN block.text \o <<" ">>
    ELSE IF block.type = "tool_use"
        THEN <<"[tool_call: ", block.name, "(", block.input, ")]">>
    ELSE IF block.type = "tool_result"
        THEN <<"[tool_result: ", block.content, "]">>
    ELSE <<>>

\* convertAnthropicToOllama, the body of the loop over msg.content: what one
\* block adds to content
blockText(block) ==
    IF block.type = "text" THEN block.text
    ELSE IF block.type = "tool_use"
        THEN <<"[tool_call: ", block.name, "(", block.input, ")]">>
    ELSE IF block.type = "tool_result"
        THEN <<"[tool_result: ", block.content, "]">>
    ELSE <<>>

\* content after the loop over the blocks
RECURSIVE blocksText(_)
blocksText(blocks) ==
    IF blocks = <<>> THEN <<>>
    ELSE blockText(Head(blocks)) \o blocksText(Tail(blocks))

\* a target message, and the number of the source message it was made from
\* (0: the request's system field)
Message(role, content, from) == [role |-> role, content |-> content, from |-> from]

\* convertAnthropicToOllama, one turn of the loop over messages: the target
\* messages pushed for the i-th source message
convertAnthropicMessage(msg, i) ==
    LET role == IF msg.role = "user" THEN "user"
                ELSE IF msg.role = "assistant" THEN "assistant"
                ELSE "user"
    IN  IF msg.content.type = "string"
            THEN <<Message(role, msg.content.text, i)>>
        ELSE IF msg.content.type = "array"
            THEN LET content == blocksText(msg.content.blocks)
                 IN  IF content # <<>>
                         THEN <<Message(role, content, i)>>
                         ELSE <<>>
        ELSE <<>>

RECURSIVE convertAnthropicMessages(_, _)
convertAnthropicMessages(messages, i) ==
    IF i > Len(messages) THEN <<>>
    ELSE convertAnthropicMessage(messages[i], i)
             \o convertAnthropicMessages(messages, i + 1)

\* convertAnthropicToOllama (model and options left out)
convertAnthropicToOllama(anthropicRequest) ==
    [messages |->
         (IF anthropicRequest.system # <<>>
              THEN <<Message("system", anthropicRequest.system, 0)>>
              ELSE <<>>)
             \o convertAnthropicMessages(anthropicRequest.messages, 1),
     stream |-> FALSE]

\* convertOpenAIToOllama, the function mapped over the parts of a content
partText(part) ==
    IF part.type = "text" THEN part.text
    ELSE IF part.type = "image_url" THEN <<"[image: ", part.url, "]">>
    ELSE <<>>

\* msg.content.map(...).join("")
RECURSIVE partsText(_)
partsText(parts) ==
    IF parts = <<>> THEN <<>>
    ELSE partText(Head(parts)) \o partsText(Tail(parts))

\* convertOpenAIToOllama, the function mapped over messages
convertOpenAIMessage(msg, i) ==
    LET content == IF msg.content.type = "string" THEN msg.content.text
                   ELSE IF msg.content.type = "array"
                       THEN partsText(msg.content.blocks)
                   ELSE <<>>
    IN  Message(msg.role, content, i)

\* convertOpenAIToOllama (model and options left out)
convertOpenAIToOllama(openaiRequest) ==
    [messages |-> [i \in 1..Len(openaiRequest.messages) |->
                       convertOpenAIMessage(openaiRequest.messages[i], i)],
     stream |-> FALSE]

\* client.js 88 / openai-client.js 83: the request body sent upstream
requestToTarget(client, request) ==
    IF client = "openai"
        THEN convertOpenAIToOllama(request)
        ELSE convertAnthropicToOllama(request)

\* convertOllamaToAnthropic of a response body whose message.content is a
\* string or absent; the text pieces are single characters, so that
\* content.length is Len(content)
convertOllamaToAnthropic(ollamaResponse) ==
    LET content == IF ollamaResponse.hasMessage /\ ollamaResponse.hasContent
                       THEN ollamaResponse.content ELSE <<>>
    IN  [type |-> "message",
         role |-> "assistant",
         text |-> content,
         finish |-> IF ollamaResponse.done THEN "end_turn" ELSE "null",
         input |-> ollamaResponse.prompt_eval_count,
         output |-> IF ollamaResponse.eval_count # 0
                        THEN ollamaResponse.eval_count ELSE Len(content)]

\* convertOllamaToOpenAI of a response body whose message.content is a string
\* or absent
convertOllamaToOpenAI(ollamaResponse) ==
    LET own == IF ollamaResponse.hasMessage /\ ollamaResponse.hasContent
                   THEN ollamaResponse.content ELSE <<>>
        content == IF ollamaResponse.hasMessage /\ ollamaResponse.thinking # <<>>
                       THEN ollamaResponse.thinking
                                \o (IF own # <<>> THEN <<"\n\n">> \o own ELSE <<>>)
                       ELSE own
    IN  [type |-> "chat.completion",
         role |-> "assistant",
         text |-> content,
         finish |-> IF ollamaResponse.done THEN "stop" ELSE "null",
         input |-> ollamaResponse.prompt_eval_count,
         output |-> ollamaResponse.eval_count]

\* client.js 134 / openai-client.js 119: the value sendMessage returns
targetToResponse(client, data) ==
    IF client = "openai"
        THEN convertOllamaToOpenAI(data)
        ELSE convertOllamaToAnthropic(data)

\* ------------------------------------------------------------ call records
NoResponse == 0

IdleCall ==
    [kind |-> "none", client |-> "none", pc |-> "idle",
     attempt |-> 0,          \* sendMessage: attempt; sendMessageStream: keyAttempt
     keyAttempt |-> 0,       \* fetchWithKeyRotation: keyAttempt
     fetchLastError |-> NoError,  \* fetchWithKeyRotation: lastError
     lastError |-> NoError,  \* sendMessage: lastError
     key |-> "",             \* the key of the Authorization header in flight
     resume |-> "none",      \* where the call continues after its pending await
     pending |-> NoError,    \* the error thrown once response.text() has settled
     response |-> NoResponse,\* status of the response held by the caller
     result |-> "none",      \* none | response | stream | error
     error |-> NoError,      \* the error raised to the caller
     startIndex |-> 0,       \* the cursor when the call started
     log |-> <<>>,           \* dispatches, rotations and delays, in order
     wire |-> <<>>,          \* body bytes not yet delivered by reader.read()
     received |-> <<>>,      \* body bytes delivered so far
     buffer |-> <<>>,        \* sendMessageStream: buffer
     lines |-> <<>>,         \* lines of the current chunk still to be handled
     rest |-> <<>>,          \* events of the line at hand not yet yielded
     linesDone |-> 0,        \* complete lines handled so far
     content |-> <<>>,       \* sendMessageStream: content
     yielded |-> <<>>,       \* the events handed to the consumer, in order
     yieldedFrom |-> <<>>,   \* for each of them, the number of its line
     given |-> NoBody,       \* the request or response body handed to a converter
     made |-> NoBody,        \* what the converter made of it
     route |-> "none",       \* the route whose handler runs: none | models | messages
     status |-> 0,           \* res.statusCode once set by the handler
     headersSent |-> FALSE,  \* res.headersSent
     written |-> <<>>,       \* the SSE frames written with res.write
     ends |-> 0,             \* times the response was ended (res.json / res.end)
     replyType |-> "none",   \* res.json: "ok" or the error type
     reply |-> NoError,      \* res.json: the error message
     lock |-> "none",        \* the body reader's lock: none | held | released
     releases |-> 0]         \* calls of reader.releaseLock()

Step(kind, key, ms) == [step |-> kind, key |-> key, ms |-> ms]
Logged(cr, entry) == IF tracing THEN [cr EXCEPT !.log = Append(@, entry)] ELSE cr

Count(log, kind) == Cardinality({i \in 1..Len(log) : log[i].step = kind})
Dispatches(cr) == Count(cr.log, "dispatch")
Rotations(cr) == Count(cr.log, "rotate")

\* throw out of the exported function: the error reaches the caller
Raise(cr, err) ==
    [cr EXCEPT !.pc = "done", !.result = "error", !.error = err, !.key = ""]

\* await sleep(ms), then continue at `resume`
Sleep(cr, ms, resume) ==
    Logged([cr EXCEPT !.pc = "waiting", !.resume = resume, !.key = ""],
           Step("sleep", "", ms))

\* client.js 22-25 / openai-client.js 23-26: fetchWithKeyRotation is called;
\* its loop counter and lastError are fresh
Called(cr) ==
    Logged([cr EXCEPT !.keyAttempt = 0, !.fetchLastError = NoError],
           Step("call", "", 0))

RECURSIVE fetchWithKeyRotation(_, _)
RECURSIVE sendMessage_attempt(_, _)
RECURSIVE sendMessageStream_connect(_, _)
RECURSIVE caller_catch(_, _, _)

\* a catch that does not keep the error of the attempt
sendMessage_catch_forgets(cr, idx, error) ==
    IF isNetworkError(error) /\ cr.attempt < MAX_RETRIES - 1
        THEN Sleep([cr EXCEPT !.attempt = @ + 1], RETRY_DELAY_MS, "outer")
        ELSE sendMessage_attempt([cr EXCEPT !.attempt = @ + 1], idx)

\* client.js 136-148 / openai-client.js 120-135: the catch of the retry
\* envelope, then the next turn of the for loop
sendMessage_catch(cr, idx, error) ==
    IF isNetworkError(error) /\ cr.attempt < MAX_RETRIES - 1
        THEN Sleep([cr EXCEPT !.attempt = @ + 1], RETRY_DELAY_MS, "outer")
        ELSE sendMessage_attempt(
                 [cr EXCEPT !.lastError = error, !.attempt = @ + 1], idx)

\* client.js 197-203 / openai-client.js 180-186: the catch of the streaming
\* connection loop
sendMessageStream_catch(cr, idx, error) ==
    IF cr.attempt >= Len(apiKeys) - 1
        THEN Raise(cr, error)
        ELSE sendMessageStream_connect([cr EXCEPT !.attempt = @ + 1], idx)

\* client.js 293-307: listModels has no catch; what the per-key loop or
\* listModels itself throws reaches the caller
listModels_catch(cr, idx, error) == Raise(cr, error)

caller_catch(cr, idx, error) ==
    IF cr.kind = "send"
        THEN sendMessage_catch(cr, idx, error)
    ELSE IF cr.kind = "list"
        THEN listModels_catch(cr, idx, error)
    ELSE sendMessageStream_catch(cr, idx, error)

\* a per-key loop that goes on using the key it read when the call started
fetchWithKeyRotation_staleKey(cr, idx) ==
    LET maxKeyAttempts == IF Len(apiKeys) = 0 THEN 1 ELSE Len(apiKeys)
    IN  IF cr.keyAttempt < maxKeyAttempts
            THEN IF getApiKey(cr.startIndex) = ""
                     THEN caller_catch(cr, idx, ErrNoKey)
                     ELSE Logged([cr EXCEPT !.pc = "fetching",
                                            !.key = getApiKey(cr.startIndex)],
                                 Step("dispatch", getApiKey(cr.startIndex), 0))
            ELSE caller_catch(cr, idx,
                     IF cr.fetchLastError # NoError
                         THEN cr.fetchLastError ELSE ErrExhausted)

\* a per-key loop that allows itself one attempt more than there are keys
fetchWithKeyRotation_oneMore(cr, idx) ==
    LET maxKeyAttempts == IF Len(apiKeys) = 0 THEN 1 ELSE Len(apiKeys)
    IN  IF cr.keyAttempt < maxKeyAttempts + 1
            THEN IF getApiKey(idx) = ""
                     THEN caller_catch(cr, idx, ErrNoKey)
                     ELSE Logged([cr EXCEPT !.pc = "fetching",
                                            !.key = getApiKey(idx)],
                                 Step("dispatch", getApiKey(idx), 0))
            ELSE caller_catch(cr, idx,
                     IF cr.fetchLastError # NoError
                         THEN cr.fetchLastError ELSE ErrExhausted)

\* client.js 27-43, 78 / openai-client.js 28-42, 74: the head of the per-key
\* loop, up to the await of fetch
fetchWithKeyRotation(cr, idx) ==
    LET maxKeyAttempts == IF Len(apiKeys) = 0 THEN 1 ELSE Len(apiKeys)
    IN  IF cr.keyAttempt < maxKeyAttempts
            THEN IF getApiKey(idx) = ""
                     THEN caller_catch(cr, idx, ErrNoKey)
                     ELSE Logged([cr EXCEPT !.pc = "fetching",
                                            !.key = getApiKey(idx)],
                                 Step("dispatch", getApiKey(idx), 0))
            ELSE caller_catch(cr, idx,
                     IF cr.fetchLastError # NoError
                         THEN cr.fetchLastError ELSE ErrExhausted)

\* a retry envelope that allows itself a fourth attempt
sendMessage_attempt_oneMore(cr, idx) ==
    IF cr.attempt < MAX_RETRIES + 1
        THEN fetchWithKeyRotation(Called(cr), idx)
        ELSE Raise(cr, IF cr.lastError # NoError
                           THEN cr.lastError ELSE ErrMaxRetries)

\* client.js 99-107, 148 / openai-client.js 91-97, 135: one turn of the retry
\* envelope
sendMessage_attempt(cr, idx) ==
    IF cr.attempt < MAX_RETRIES
        THEN fetchWithKeyRotation(Called(cr), idx)
        ELSE Raise(cr, IF cr.lastError # NoError
                           THEN cr.lastError ELSE ErrMaxRetries)

\* the bound of the streaming connection loop: keys.length (client.js 171),
\* Math.max(keys.length, 1) (openai-client.js 158)
connectLimit(client) ==
    IF client = "openai" /\ Len(apiKeys) = 0 THEN 1 ELSE Len(apiKeys)

\* client.js 206-209 / openai-client.js 189-192: after the connection loop
\* has run out without a break
sendMessageStream_afterLoop(cr) ==
    IF cr.response = NoResponse
        THEN IF cr.client = "openai"
                 THEN Raise(cr, <<"API error: ", "No response">>)
                 ELSE Raise(cr, ErrUndefinedResponse)
        ELSE IF cr.client = "openai"
                 THEN Raise(cr, <<"API error: ", "body">>)
                 ELSE Raise(cr, ErrApi(cr.response))

\* client.js 171-179 / openai-client.js 158-164: one turn of the streaming
\* connection loop
sendMessageStream_connect(cr, idx) ==
    IF cr.attempt < connectLimit(cr.client)
        THEN fetchWithKeyRotation(Called(cr), idx)
        ELSE sendMessageStream_afterLoop(cr)

\* await response.text(), then throw `error` into the caller's catch
AwaitText(cr, error) ==
    [cr EXCEPT !.pc = "waiting", !.resume = "catch", !.pending = error,
               !.key = ""]

\* config.rotateApiKey() followed by the loop's keyAttempt++
Rotated(cr, idx) ==
    Logged([cr EXCEPT !.keyAttempt = @ + 1],
           Step("rotate", getApiKey(rotateApiKey(idx)), 0))

\* client.js 109-134 / openai-client.js 99-119: sendMessage with the response
\* handed back by the per-key loop
sendMessage_response(cr, idx, status) ==
    IF ok(status)
        THEN [cr EXCEPT !.pc = "done", !.result = "response",
                        !.response = status, !.key = ""]
    ELSE IF status = 429
        THEN Sleep([cr EXCEPT !.attempt = @ + 1, !.response = status],
                   RETRY_DELAY_MS * (cr.attempt + 1), "outer")
    ELSE IF status = 401
        THEN AwaitText([cr EXCEPT !.response = status], ErrAuth)
    ELSE AwaitText([cr EXCEPT !.response = status], ErrApi(status))

\* client.js 181-195, 206-215 / openai-client.js 166-179, 189-196:
\* sendMessageStream with the response handed back by the per-key loop
sendMessageStream_response(cr, idx, status) ==
    LET got == [cr EXCEPT !.response = status]
    IN  IF ok(status)
            THEN [got EXCEPT !.pc = "reading", !.result = "stream", !.key = "",
                             !.wire = bodyBytes, !.lock = "held"]
        ELSE IF status \in {401, 429} /\ cr.attempt + 1 < Len(apiKeys)
            THEN sendMessageStream_connect([got EXCEPT !.attempt = @ + 1], idx)
        ELSE IF status \in {401, 429}
            THEN AwaitText([got EXCEPT !.attempt = @ + 1], ErrApi(status))
        ELSE AwaitText(got, ErrApi(status))

\* client.js 300-309: listModels with the response handed back by the
\* per-key loop
listModels_response(cr, idx, status) ==
    IF ok(status)
        THEN [cr EXCEPT !.pc = "done", !.result = "response",
                        !.response = status, !.key = ""]
        ELSE AwaitText([cr EXCEPT !.response = status], ErrListModels(status))

caller_response(cr, idx, status) ==
    IF cr.kind = "send"
        THEN sendMessage_response(cr, idx, status)
    ELSE IF cr.kind = "list"
        THEN listModels_response(cr, idx, status)
    ELSE sendMessageStream_response(cr, idx, status)

\* a per-key loop that also rotates before it hands back any other response
fetchWithKeyRotation_settled_alwaysRotates(cr, idx, o) ==
    IF o.type = "throw"
        THEN LET seen == [cr EXCEPT !.fetchLastError = o.error]
             IN  IF isNetworkError(o.error) /\ Len(apiKeys) > 1
                     THEN [cr |-> Sleep(Rotated(seen, idx), RETRY_DELAY_MS, "inner"),
                           idx |-> rotateApiKey(idx)]
                     ELSE [cr |-> caller_catch(seen, idx, o.error), idx |-> idx]
    ELSE IF o.status = 401
        THEN [cr |-> fetchWithKeyRotation(Rotated(cr, idx), rotateApiKey(idx)),
              idx |-> rotateApiKey(idx)]
    ELSE IF o.status = 429 /\ Len(apiKeys) > 1
        THEN [cr |-> Sleep(Rotated(cr, idx), ROTATE_429_DELAY_MS, "inner"),
              idx |-> rotateApiKey(idx)]
    ELSE [cr |-> caller_response(cr, rotateApiKey(idx), o.status),
          idx |-> rotateApiKey(idx)]

\* a per-key loop that goes on to the next key at once after a 429
fetchWithKeyRotation_settled_noDelay(cr, idx, o) ==
    IF o.type = "throw"
        THEN LET seen == [cr EXCEPT !.fetchLastError = o.error]
             IN  IF isNetworkError(o.error) /\ Len(apiKeys) > 1
                     THEN [cr |-> Sleep(Rotated(seen, idx), RETRY_DELAY_MS, "inner"),
                           idx |-> rotateApiKey(idx)]
                     ELSE [cr |-> caller_catch(seen, idx, o.error), idx |-> idx]
    ELSE IF o.status = 401 \/ (o.status = 429 /\ Len(apiKeys) > 1)
        THEN [cr |-> fetchWithKeyRotation(Rotated(cr, idx), rotateApiKey(idx)),
              idx |-> rotateApiKey(idx)]
    ELSE [cr |-> caller_response(cr, idx, o.status), idx |-> idx]

\* a per-key loop that waits after a network error but keeps the key
fetchWithKeyRotation_settled_noRotate(cr, idx, o) ==
    IF o.type = "throw"
        THEN LET seen == [cr EXCEPT !.fetchLastError = o.error]
             IN  IF isNetworkError(o.error) /\ Len(apiKeys) > 1
                     THEN [cr |-> Sleep([seen EXCEPT !.keyAttempt = @ + 1],
                                        RETRY_DELAY_MS, "inner"),
                           idx |-> idx]
                     ELSE [cr |-> caller_catch(seen, idx, o.error), idx |-> idx]
    ELSE IF o.status = 401
        THEN [cr |-> fetchWithKeyRotation(Rotated(cr, idx), rotateApiKey(idx)),
              idx |-> rotateApiKey(idx)]
    ELSE IF o.status = 429 /\ Len(apiKeys) > 1
        THEN [cr |-> Sleep(Rotated(cr, idx), ROTATE_429_DELAY_MS, "inner"),
              idx |-> rotateApiKey(idx)]
    ELSE [cr |-> caller_response(cr, idx, o.status), idx |-> idx]

\* a per-key loop that hands a 401 back to its caller
fetchWithKeyRotation_settled_hands401(cr, idx, o) ==
    IF o.type = "throw"
        THEN LET seen == [cr EXCEPT !.fetchLastError = o.error]
             IN  IF isNetworkError(o.error) /\ Len(apiKeys) > 1
                     THEN [cr |-> Sleep(Rotated(seen, idx), RETRY_DELAY_MS, "inner"),
                           idx |-> rotateApiKey(idx)]
                     ELSE [cr |-> caller_catch(seen, idx, o.error), idx |-> idx]
    ELSE IF o.status = 429 /\ Len(apiKeys) > 1
        THEN [cr |-> Sleep(Rotated(cr, idx), ROTATE_429_DELAY_MS, "inner"),
              idx |-> rotateApiKey(idx)]
    ELSE [cr |-> caller_response(cr, idx, o.status), idx |-> idx]

\* client.js 43-75 / openai-client.js 42-71: the per-key loop once the awaited
\* fetch has settled with outcome o; gives the call and the cursor
fetchWithKeyRotation_settled(cr, idx, o) ==
    IF o.type = "throw"
        THEN LET seen == [cr EXCEPT !.fetchLastError = o.error]
             IN  IF isNetworkError(o.error) /\ Len(apiKeys) > 1
                     THEN [cr |-> Sleep(Rotated(seen, idx), RETRY_DELAY_MS, "inner"),
                           idx |-> rotateApiKey(idx)]
                     ELSE [cr |-> caller_catch(seen, idx, o.error), idx |-> idx]
    ELSE IF o.status = 401
        THEN [cr |-> fetchWithKeyRotation(Rotated(cr, idx), rotateApiKey(idx)),
              idx |-> rotateApiKey(idx)]
    ELSE IF o.status = 429 /\ Len(apiKeys) > 1
        THEN [cr |-> Sleep(Rotated(cr, idx), ROTATE_429_DELAY_MS, "inner"),
              idx |-> rotateApiKey(idx)]
    ELSE [cr |-> caller_response(cr, idx, o.status), idx |-> idx]

\* the continuation of a call whose sleep or response.text() has settled
resumed(cr, idx) ==
    IF cr.resume = "inner" THEN fetchWithKeyRotation(cr, idx)
    ELSE IF cr.resume = "outer" THEN sendMessage_attempt(cr, idx)
    ELSE caller_catch(cr, idx, cr.pending)

\* ------------------------------------------------------------ stream events
Event(type, text, finish, usage, input, output) ==
    [type |-> type, text |-> text, finish_reason |-> finish,
     hasUsage |-> usage, input_tokens |-> input, output_tokens |-> output]

\* an inline loop that swaps the two usage counters of the terminal event
sendMessageStream_events_swapped(data, content) ==
    LET hit == data.hasMessage /\ data.content # <<>>
        acc == IF hit THEN content \o data.content ELSE content
    IN  (IF hit
             THEN <<Event("content_block_delta", data.content, "", FALSE, 0, 0)>>
             ELSE <<>>)
        \o
        (IF data.done
             THEN <<Event("message_stop", acc, "end_turn", TRUE,
                          data.eval_count, data.prompt_eval_count)>>
             ELSE <<>>)

\* client.js 239-276: the events the inline loop yields for one parsed line,
\* with `content` the text accumulated before the line
sendMessageStream_events(data, content) ==
    LET hit == data.hasMessage /\ data.content # <<>>
        acc == IF hit THEN content \o data.content ELSE content
    IN  (IF hit
             THEN <<Event("content_block_delta", data.content, "", FALSE, 0, 0)>>
             ELSE <<>>)
        \o
        (IF data.done
             THEN <<Event("message_stop", acc, "end_turn", TRUE,
                          data.prompt_eval_count, data.eval_count)>>
             ELSE <<>>)

\* converter.js convertOllamaStreamToAnthropic: <<>> stands for null
convertOllamaStreamToAnthropic(chunk) ==
    IF chunk.hasMessage /\ chunk.hasContent
        THEN <<Event("content_block_delta", chunk.content, "", FALSE, 0, 0)>>
    ELSE IF chunk.done
        THEN <<Event("message_stop", <<>>, "end_turn", TRUE,
                     chunk.prompt_eval_count, chunk.eval_count)>>
    ELSE <<>>

\* a converter that gives the text of a final chunk as well as the stop
convertOllamaStreamToOpenAI_both(chunk) ==
    (IF chunk.hasMessage /\ chunk.content # <<>>
         THEN <<Event("chat.completion.chunk", chunk.content, "null", FALSE, 0, 0)>>
         ELSE <<>>)
    \o
    (IF chunk.done
         THEN <<Event("chat.completion.chunk", <<>>, "stop", FALSE, 0, 0)>>
         ELSE <<>>)

\* converter.js convertOllamaStreamToOpenAI: <<>> stands for null
convertOllamaStreamToOpenAI(chunk) ==
    IF chunk.done
        THEN <<Event("chat.completion.chunk", <<>>, "stop", FALSE, 0, 0)>>
    ELSE IF ~chunk.hasMessage
        THEN <<>>
    ELSE LET text == chunk.content
             full == IF chunk.thinking # <<>>
                         THEN chunk.thinking \o
                              (IF text # <<>> THEN <<"\n\n">> \o text ELSE <<>>)
                         ELSE text
         IN  IF full = <<>>
                 THEN <<>>
                 ELSE <<Event("chat.completion.chunk", full, "null", FALSE, 0, 0)>>

\* client.js 237-276 / openai-client.js 213-215: the events a parsed line
\* gives rise to
translate(client, data, content) ==
    IF client = "openai"
        THEN convertOllamaStreamToOpenAI(data)
        ELSE sendMessageStream_events(data, content)

isDelta(e) ==
    \/ e.type = "content_block_delta"
    \/ e.type = "chat.completion.chunk" /\ e.finish_reason = "null"
isTerminal(e) ==
    \/ e.type = "message_stop"
    \/ e.type = "chat.completion.chunk" /\ e.finish_reason = "stop"

\* a content that keeps the latest piece of text only
accumulated_latest(client, content, e) ==
    IF client = "anthropic" /\ e.type = "content_block_delta"
        THEN e.text ELSE content

\* content += data.message.content (client.js 240)
accumulated(client, content, e) ==
    IF client = "anthropic" /\ e.type = "content_block_delta"
        THEN content \o e.text ELSE content

\* a catch that gives up the rest of the chunk
parseFailed_endsChunk(cr) == [cr EXCEPT !.lines = <<>>]

\* client.js 279-281 / openai-client.js 216-218: JSON.parse has thrown; the
\* catch logs the line and the for loop goes on
parseFailed(cr) == cr

\* client.js 233-283 / openai-client.js 209-220: the generator runs on from
\* where it stands to its next yield, or to the next await of reader.read()
RECURSIVE runLines(_)
runLines(cr) ==
    IF cr.rest # <<>>
        THEN [cr EXCEPT !.pc = "yielded",
                        !.yielded = Append(@, Head(cr.rest)),
                        !.yieldedFrom = Append(@, cr.linesDone),
                        !.content = accumulated(cr.client, @, Head(cr.rest)),
                        !.rest = Tail(@)]
    ELSE IF cr.lines = <<>>
        THEN [cr EXCEPT !.pc = "reading"]
    ELSE LET line == Head(cr.lines)
             next == [cr EXCEPT !.lines = Tail(@), !.linesDone = @ + 1]
         IN  IF skipped(line)
                 THEN runLines(next)
             ELSE IF ~parses(line)
                 THEN runLines(parseFailed(next))
             ELSE runLines([next EXCEPT !.rest =
                                translate(cr.client, JSONparse(line), cr.content)])

\* a split that keeps the last complete line in the buffer with the residue
chunkRead_holdsLine(cr, chunk) ==
    LET parts == split(cr.buffer \o chunk)
        n == Len(parts)
    IN  IF n >= 2
            THEN [cr EXCEPT !.received = @ \o chunk,
                            !.buffer = parts[n - 1] \o <<NL>> \o parts[n],
                            !.lines = SubSeq(parts, 1, n - 2)]
            ELSE [cr EXCEPT !.received = @ \o chunk, !.buffer = parts[n]]

\* a split that forgets the residue after the last newline of the chunk
chunkRead_dropsResidue(cr, chunk) ==
    LET parts == split(cr.buffer \o chunk)
    IN  [cr EXCEPT !.received = @ \o chunk,
                   !.buffer = <<>>,
                   !.lines = Front(parts)]

\* client.js 223-231 / openai-client.js 202-207: a chunk has been read
chunkRead(cr, chunk) ==
    LET parts == split(cr.buffer \o chunk)
    IN  [cr EXCEPT !.received = @ \o chunk,
                   !.buffer = Last(parts),
                   !.lines = Front(parts)]

\* client.js 284-286 / openai-client.js 221-223: finally
releaseLock(cr) == [cr EXCEPT !.lock = "released", !.releases = @ + 1]

ErrTerminated == <<"terminated">>

\* a read loop that connects again when a read fails
readFailed_reconnects(cr, idx) ==
    sendMessageStream_connect(releaseLock(cr), idx)

\* client.js 223, 284-286 / openai-client.js 202, 221-223: reader.read() has
\* rejected; the finally releases the lock and the error leaves the generator
readFailed(cr, idx) == Raise(releaseLock(cr), ErrTerminated)

\* ----------------------------------------------------------------- actions
Kinds == {"send", "stream"}
Clients == {"anthropic", "openai"}

\* sendMessage / sendOpenAIMessage / sendMessageStream /
\* sendOpenAIMessageStream / listModels is called: runs to its first await
Start(c, kind, client) ==
    /\ call[c].pc = "idle"
    /\ LET fresh == [IdleCall EXCEPT !.kind = kind, !.client = client,
                                     !.startIndex = currentKeyIndex]
       IN  call' = [call EXCEPT ![c] =
                        IF kind = "send"
                            THEN sendMessage_attempt(fresh, currentKeyIndex)
                        ELSE IF kind = "list"
                            THEN fetchWithKeyRotation(Called(fresh), currentKeyIndex)
                        ELSE sendMessageStream_connect(fresh, currentKeyIndex)]
    /\ UNCHANGED <<apiKey, apiKeys, currentKeyIndex, upstream, upstreamBody, tracing>>

\* a settling that rotates from the cursor as the call last knew it
Respond_staleCursor(c) ==
    /\ call[c].pc = "fetching"
    /\ LET known == (call[c].startIndex + Rotations(call[c])) % Len(apiKeys)
           r == fetchWithKeyRotation_settled(call[c], known, upstream[call[c].key])
       IN  /\ call' = [call EXCEPT ![c] = r.cr]
           /\ currentKeyIndex' = IF r.idx = known THEN currentKeyIndex ELSE r.idx
    /\ UNCHANGED <<apiKey, apiKeys, upstream, upstreamBody, tracing>>

\* the awaited fetch settles: upstream answers the dispatch
Respond(c) ==
    /\ call[c].pc = "fetching"
    /\ LET r == fetchWithKeyRotation_settled(call[c], currentKeyIndex,
                                             upstream[call[c].key])
       IN  /\ call' = [call EXCEPT ![c] = r.cr]
           /\ currentKeyIndex' = r.idx
    /\ UNCHANGED <<apiKey, apiKeys, upstream, upstreamBody, tracing>>

\* an awaited sleep or response.text() settles
Resume(c) ==
    /\ call[c].pc = "waiting"
    /\ call' = [call EXCEPT ![c] = resumed(call[c], currentKeyIndex)]
    /\ UNCHANGED <<apiKey, apiKeys, currentKeyIndex, upstream, upstreamBody, tracing>>

\* the caller has taken the result; the exchange slot is free again
Return(c) ==
    /\ call[c].pc = "done"
    /\ call' = [call EXCEPT ![c] = IdleCall]
    /\ UNCHANGED <<apiKey, apiKeys, currentKeyIndex, upstream, upstreamBody, tracing>>

\* the request body is built from the caller's request (client.js 88 /
\* openai-client.js 83)
ConvertRequest(c, client, request) ==
    /\ call[c].pc = "idle"
    /\ call' = [call EXCEPT ![c] =
                    [IdleCall EXCEPT !.kind = "request", !.client = client,
                                     !.pc = "done", !.given = request,
                                     !.made = requestToTarget(client, request)]]
    /\ UNCHANGED <<apiKey, apiKeys, currentKeyIndex, upstream, upstreamBody, tracing>>

\* the returned value is built from the parsed response body (client.js
\* 133-134 / openai-client.js 118-119)
ConvertResponse(c, client, data) ==
    /\ call[c].pc = "idle"
    /\ call' = [call EXCEPT ![c] =
                    [IdleCall EXCEPT !.kind = "response", !.client = client,
                                     !.pc = "done", !.given = data,
                                     !.made = targetToResponse(client, data)]]
    /\ UNCHANGED <<apiKey, apiKeys, currentKeyIndex, upstream, upstreamBody, tracing>>

\* reader.read() gives the next n bytes of the body
Read(c, n) ==
    /\ call[c].pc = "reading"
    /\ n \in 1..Len(call[c].wire)
    /\ call' = [call EXCEPT ![c] =
                    runLines(chunkRead([call[c] EXCEPT !.wire = SubSeq(@, n + 1, Len(@))],
                                       SubSeq(call[c].wire, 1, n)))]
    /\ UNCHANGED <<apiKey, apiKeys, currentKeyIndex, upstream, upstreamBody, tracing>>

\* the consumer asks for the next event: the generator runs on from its yield
Pull(c) ==
    /\ call[c].pc = "yielded"
    /\ call' = [call EXCEPT ![c] = runLines(call[c])]
    /\ UNCHANGED <<apiKey, apiKeys, currentKeyIndex, upstream, upstreamBody, tracing>>

\* an end of input that closes the sequence with a terminal event of its own
ReadEnd_fabricates(c) ==
    /\ call[c].pc = "reading"
    /\ call[c].wire = <<>>
    /\ call' = [call EXCEPT ![c] =
                    [releaseLock(call[c]) EXCEPT
                         !.pc = "done",
                         !.yielded = Append(@, Event("message_stop", <<>>,
                                                     "end_turn", TRUE, 0, 0)),
                         !.yieldedFrom = Append(@, call[c].linesDone)]]
    /\ UNCHANGED <<apiKey, apiKeys, currentKeyIndex, upstream, upstreamBody, tracing>>

\* an end of input that first handles what is left in the buffer as a line
ReadEnd_flushes(c) ==
    /\ call[c].pc = "reading"
    /\ call[c].wire = <<>>
    /\ call' = [call EXCEPT ![c] =
                    IF call[c].buffer # <<>>
                        THEN runLines([call[c] EXCEPT !.lines = <<call[c].buffer>>,
                                                      !.buffer = <<>>])
                        ELSE [releaseLock(call[c]) EXCEPT !.pc = "done"]]
    /\ UNCHANGED <<apiKey, apiKeys, currentKeyIndex, upstream, upstreamBody, tracing>>

\* reader.read() reports done: upstream has closed the body
ReadEnd(c) ==
    /\ call[c].pc = "reading"
    /\ call[c].wire = <<>>
    /\ call' = [call EXCEPT ![c] = [releaseLock(call[c]) EXCEPT !.pc = "done"]]
    /\ UNCHANGED <<apiKey, apiKeys, currentKeyIndex, upstream, upstreamBody, tracing>>

\* reader.read() rejects: the connection fails in mid-stream
ReadFail(c) ==
    /\ call[c].pc = "reading"
    /\ call' = [call EXCEPT ![c] = readFailed(call[c], currentKeyIndex)]
    /\ UNCHANGED <<apiKey, apiKeys, currentKeyIndex, upstream, upstreamBody, tracing>>

\* a generator whose return() leaves without running the finally block
Abandon_leaks(c) ==
    /\ call[c].pc = "yielded"
    /\ call' = [call EXCEPT ![c] =
                    [call[c] EXCEPT !.pc = "done", !.result = "abandoned"]]
    /\ UNCHANGED <<apiKey, apiKeys, currentKeyIndex, upstream, upstreamBody, tracing>>

\* the consumer gives the sequence up at a yield: generator.return()
Abandon(c) ==
    /\ call[c].pc = "yielded"
    /\ call' = [call EXCEPT ![c] =
                    [releaseLock(call[c]) EXCEPT !.pc = "done",
                                                 !.result = "abandoned"]]
    /\ UNCHANGED <<apiKey, apiKeys, currentKeyIndex, upstream, upstreamBody, tracing>>

\* ------------------------------------------------------------------ server
\* res.status(status).json(...)
Replied(cr, status, type, message) ==
    [cr EXCEPT !.pc = "replied", !.status = status, !.headersSent = TRUE,
               !.ends = @ + 1, !.replyType = type, !.reply = message]

\* res.write(`event: ${name}\ndata: ${JSON.stringify(data)}\n\n`)
Frame(name, data) == [event |-> name, data |-> data]

\* server.js, the body of the for await loop: the frames written for an event
frames(event) ==
    IF event.type = "message_stop"
        THEN <<Frame("message_start", event), Frame("message_stop", event)>>
    ELSE IF event.type = "content_block_delta"
        THEN <<Frame("content_block_start", NoBody),
               Frame("content_block_delta", event),
               Frame("content_block_stop", NoBody)>>
    ELSE <<>>

\* app.get('/v1/models') up to its await
GetModels(c) ==
    /\ call[c].pc = "idle"
    /\ LET base == [IdleCall EXCEPT !.route = "models"]
           fresh == [base EXCEPT !.kind = "list", !.client = "anthropic",
                                 !.startIndex = currentKeyIndex]
       IN  call' = [call EXCEPT ![c] =
                        IF apiKey = ""
                            THEN Replied(base, 401, "authentication_error",
                                         ErrKeyRequired)
                            ELSE fetchWithKeyRotation(Called(fresh), currentKeyIndex)]
    /\ UNCHANGED <<apiKey, apiKeys, currentKeyIndex, upstream, upstreamBody, tracing>>

\* app.post('/v1/messages') up to its first await; valid: the body's messages
\* field is an array
PostMessages(c, stream, valid) ==
    /\ call[c].pc = "idle"
    /\ LET base == [IdleCall EXCEPT !.route = "messages"]
           fresh == [base EXCEPT !.client = "anthropic",
                                 !.startIndex = currentKeyIndex]
       IN  call' = [call EXCEPT ![c] =
                        IF Len(apiKeys) = 0
                            THEN Replied(base, 401, "authentication_error",
                                         ErrKeysRequired)
                        ELSE IF ~valid
                            THEN Replied(base, 400, "invalid_request_error",
                                         ErrMessagesRequired)
                        ELSE IF stream
                            THEN sendMessageStream_connect(
                                     [fresh EXCEPT !.kind = "stream", !.status = 200,
                                                   !.headersSent = TRUE],
                                     currentKeyIndex)
                        ELSE sendMessage_attempt([fresh EXCEPT !.kind = "send"],
                                                 currentKeyIndex)]
    /\ UNCHANGED <<apiKey, apiKeys, currentKeyIndex, upstream, upstreamBody, tracing>>

\* the for await loop of app.post('/v1/messages') has an event: it writes the
\* event's frames and asks the generator for the next one
Write(c) ==
    /\ call[c].route = "messages"
    /\ call[c].pc = "yielded"
    /\ call' = [call EXCEPT ![c] =
                    runLines([call[c] EXCEPT !.written =
                                  @ \o frames(Last(call[c].yielded))])]
    /\ UNCHANGED <<apiKey, apiKeys, currentKeyIndex, upstream, upstreamBody, tracing>>

\* a handler whose inner catch answers a failed stream and throws it on to the
\* outer catch, which answers it again
Finish_rethrows(c) ==
    /\ call[c].route # "none"
    /\ call[c].pc = "done"
    /\ LET cr == call[c]
           errorFrame == Frame("error", [type |-> parseError(cr.error),
                                         message |-> errorMessage(cr.error)])
       IN  call' = [call EXCEPT ![c] =
                IF cr.kind = "stream"
                    THEN IF cr.result # "error"
                             THEN [cr EXCEPT !.pc = "replied", !.ends = @ + 1]
                         ELSE [cr EXCEPT !.pc = "replied", !.ends = @ + 2,
                                         !.written = @ \o <<errorFrame, errorFrame>>]
                ELSE IF cr.result = "response"
                    THEN Replied(cr, 200, "ok", NoError)
                ELSE Replied(cr, statusCode(cr.error), parseError(cr.error),
                             errorMessage(cr.error))]
    /\ UNCHANGED <<apiKey, apiKeys, currentKeyIndex, upstream, upstreamBody, tracing>>

\* the handler's await settles: listModels, sendMessage or the generator has
\* returned or thrown
Finish(c) ==
    /\ call[c].route # "none"
    /\ call[c].pc = "done"
    /\ LET cr == call[c]
       IN  call' = [call EXCEPT ![c] =
                IF cr.kind = "stream"
                    THEN IF cr.result # "error"
                             THEN [cr EXCEPT !.pc = "replied", !.ends = @ + 1]
                         ELSE IF ~cr.headersSent
                             THEN Replied(cr, 500, parseError(cr.error),
                                          errorMessage(cr.error))
                         ELSE [cr EXCEPT !.pc = "replied", !.ends = @ + 1,
                                         !.written = Append(@,
                                             Frame("error",
                                                   [type |-> parseError(cr.error),
                                                    message |-> errorMessage(cr.error)]))]
                ELSE IF cr.result = "response"
                    THEN Replied(cr, 200, "ok", NoError)
                ELSE Replied(cr, statusCode(cr.error), parseError(cr.error),
                             errorMessage(cr.error))]
    /\ UNCHANGED <<apiKey, apiKeys, currentKeyIndex, upstream, upstreamBody, tracing>>

Pools == {SubSeq(KeyNames, 1, k) : k \in 0..MaxKeys}
PoolKeys == {apiKeys[i] : i \in 1..Len(apiKeys)}

StreamStep(c) ==
    \/ \E n \in 1..Len(call[c].wire) : Read(c, n)
    \/ Pull(c)
    \/ ReadEnd(c)
    \/ ReadFail(c)
    \/ Abandon(c)

CallStep(c) ==
    \/ \E kind \in Kinds, client \in Clients : Start(c, kind, client)
    \/ Start(c, "list", "anthropic")
    \/ Respond(c)
    \/ Resume(c)
    \/ Return(c)
    \/ StreamStep(c)

\* One exchange at a time, its steps recorded; upstream answers each key in
\* a fixed way chosen among all outcomes.
Init ==
    /\ apiKey = ""
    /\ apiKeys \in Pools
    /\ currentKeyIndex = 0
    /\ upstream \in [PoolKeys -> Outcomes]
    /\ upstreamBody = [lines |-> <<LineA>>, terminated |-> TRUE]
    /\ tracing = TRUE
    /\ call = [c \in Calls |-> IdleCall]

Next == CallStep(1)

Spec == Init /\ [][Next]_vars

\* The same, with every awaited fetch, sleep and response.text() of the
\* exchange settling in the end.
SpecSettling ==
    Init /\ [][Next]_vars /\ WF_vars(Respond(1)) /\ WF_vars(Resume(1))

\* NumCalls concurrent exchanges on the shared pool, interleaved at their
\* awaits.
ConcOutcomes ==
    {Status(200), Status(401), Status(429), Thrown(<<"fetch failed">>)}

InitConc ==
    /\ apiKey = ""
    /\ apiKeys \in Pools
    /\ currentKeyIndex = 0
    /\ upstream \in [PoolKeys -> ConcOutcomes]
    /\ upstreamBody = [lines |-> <<>>, terminated |-> TRUE]
    /\ tracing = FALSE
    /\ call = [c \in Calls |-> IdleCall]

\* the route exchange c came in by: /v1/messages or /v1/chat/completions
ClientOf(c) == IF c % 2 = 1 THEN "anthropic" ELSE "openai"

NextConc ==
    \E c \in Calls :
        \/ \E kind \in Kinds : Start(c, kind, ClientOf(c))
        \/ Respond(c)
        \/ Resume(c)

SpecConc == InitConc /\ [][NextConc]_vars

\* NumCalls concurrent non-streaming calls on a shared pool in which some key
\* is always accepted and every other key is always rejected with 401 or 429.
InitShared ==
    /\ apiKey = ""
    /\ apiKeys \in {p \in Pools : Len(p) > 0}
    /\ currentKeyIndex = 0
    /\ upstream \in {u \in [PoolKeys -> {Status(200), Status(401), Status(429)}] :
                         \E k \in PoolKeys : u[k] = Status(200)}
    /\ upstreamBody = [lines |-> <<>>, terminated |-> TRUE]
    /\ tracing = FALSE
    /\ call = [c \in Calls |-> IdleCall]

NextShared ==
    \E c \in Calls :
        \/ Start(c, "send", ClientOf(c))
        \/ Respond(c)
        \/ Resume(c)

SpecShared == InitShared /\ [][NextShared]_vars

\* NumCalls concurrent listModels exchanges over a pool of several keys,
\* their rotations recorded.
InitRace ==
    /\ apiKey = ""
    /\ apiKeys \in {p \in Pools : Len(p) > 1}
    /\ currentKeyIndex = 0
    /\ upstream \in [PoolKeys -> ConcOutcomes]
    /\ upstreamBody = [lines |-> <<>>, terminated |-> TRUE]
    /\ tracing = TRUE
    /\ call = [c \in Calls |-> IdleCall]

NextRace ==
    \E c \in Calls :
        \/ Start(c, "list", "anthropic")
        \/ Respond(c)
        \/ Resume(c)

SpecRace == InitRace /\ [][NextRace]_vars

\* One streaming exchange over a two-key pool whose first key is rejected or
\* whose upstream is failing; upstream sends any body of at most MaxLines
\* lines, delivered in chunks of any sizes.
StreamUpstreams ==
    {[k \in {"key1", "key2"} |-> IF k = "key1" THEN Status(401) ELSE Status(200)],
     [k \in {"key1", "key2"} |-> Status(500)]}

InitStream ==
    /\ apiKey = ""
    /\ apiKeys = SubSeq(KeyNames, 1, 2)
    /\ currentKeyIndex = 0
    /\ upstream \in StreamUpstreams
    /\ upstreamBody \in Bodies
    /\ tracing = TRUE
    /\ call = [c \in Calls |-> IdleCall]

NextStream ==
    \/ \E client \in Clients : Start(1, "stream", client)
    \/ Respond(1)
    \/ Resume(1)
    \/ StreamStep(1)

SpecStream == InitStream /\ [][NextStream]_vars

\* One exchange at a time, begun with the cursor anywhere in a pool of
\* several keys, where earlier exchanges may have left it.
InitCycle ==
    /\ apiKey = ""
    /\ apiKeys \in {p \in Pools : Len(p) > 1}
    /\ currentKeyIndex \in 0..(Len(apiKeys) - 1)
    /\ upstream \in [PoolKeys -> Outcomes]
    /\ upstreamBody = [lines |-> <<LineA>>, terminated |-> TRUE]
    /\ tracing = TRUE
    /\ call = [c \in Calls |-> IdleCall]

SpecCycle == InitCycle /\ [][Next]_vars

\* The same body streamed twice by the same client, one call after the
\* other: the first reads it as a single chunk, the second in chunks of any
\* sizes.
InitChunks ==
    /\ apiKey = ""
    /\ apiKeys = SubSeq(KeyNames, 1, 1)
    /\ currentKeyIndex = 0
    /\ upstream = [k \in PoolKeys |-> Status(200)]
    /\ upstreamBody \in Bodies
    /\ tracing = FALSE
    /\ call = [c \in Calls |-> IdleCall]

NextChunks ==
    \/ \E client \in Clients : Start(1, "stream", client)
    \/ call[1].pc = "done" /\ Start(2, "stream", call[1].client)
    \/ \E c \in {1, 2} : Respond(c) \/ Pull(c) \/ ReadEnd(c)
    \/ Len(call[1].wire) > 0 /\ Read(1, Len(call[1].wire))
    \/ \E n \in 1..Len(call[2].wire) : Read(2, n)

SpecChunks == InitChunks /\ [][NextChunks]_vars

\* The same call made through the Anthropic client and then, once that one
\* has left its transport and with the cursor where it was, through the
\* OpenAI client: same pool, same cursor, same answer of upstream to each key.
Settled(c) == call[c].pc \in {"done", "reading"}

InitTwin ==
    /\ apiKey = ""
    /\ apiKeys \in Pools
    /\ currentKeyIndex \in {i \in 0..MaxKeys : i = 0 \/ i < Len(apiKeys)}
    /\ upstream \in [PoolKeys -> Outcomes]
    /\ upstreamBody = [lines |-> <<>>, terminated |-> TRUE]
    /\ tracing = TRUE
    /\ call = [c \in Calls |-> IdleCall]

NextTwin ==
    \/ \E kind \in Kinds : Start(1, kind, "anthropic")
    \/ /\ Settled(1)
       /\ currentKeyIndex = call[1].startIndex
       /\ Start(2, call[1].kind, "openai")
    \/ \E c \in {1, 2} : Respond(c) \/ Resume(c)

SpecTwin == InitTwin /\ [][NextTwin]_vars

\* The front door: one request to GET /v1/models or POST /v1/messages, after
\* a configuration load from any config.json and environment.
ConfigFiles ==
    {NoFile}
        \cup {File(k, ks) : k \in {"", "key1"},
                            ks \in {<<>>, <<"key1">>, <<"key1", "key2">>}}
Envs ==
    [OLLAMA_API_KEY : {Unset, Items(<<"key1">>), Items(<<"key1", "", "key2">>),
                       Items(<<"", "">>)},
     ANTHROPIC_API_KEY : {Unset, Items(<<"key2">>)}]
ServerOutcomes == {Status(200), Status(401), Status(500)}
ServerBodies ==
    [lines : UNION {[1..n -> {LineA, LineStop, LineBad}] : n \in 0..2},
     terminated : {TRUE}]

InitServer ==
    /\ \E file \in ConfigFiles, env \in Envs :
           /\ apiKey = loadConfig(file, env).apiKey
           /\ apiKeys = loadConfig(file, env).apiKeys
    /\ currentKeyIndex = 0
    /\ upstream \in [PoolKeys -> ServerOutcomes]
    /\ upstreamBody \in ServerBodies
    /\ tracing = TRUE
    /\ call = [c \in Calls |-> IdleCall]

NextServer ==
    \/ GetModels(1)
    \/ \E stream \in BOOLEAN, valid \in BOOLEAN : PostMessages(1, stream, valid)
    \/ Respond(1)
    \/ Resume(1)
    \/ \E n \in 1..Len(call[1].wire) : Read(1, n)
    \/ ReadEnd(1)
    \/ ReadFail(1)
    \/ Write(1)
    \/ Finish(1)

SpecServer == InitServer /\ [][NextServer]_vars

\* The converters applied to any request of at most MaxMessages messages and
\* to any response body.
MaxMessages == 2
MaxBlocks == 2
Roles == {"user", "assistant", "system", "tool"}
Blocks ==
    {TextBlock(""), TextBlock("a"), TextBlock("b"), ToolUseBlock,
     ToolResultBlock, ImagePart}
Contents ==
    {String(""), String("a"), Null}
        \cup {Array(bs) : bs \in UNION {[1..n -> Blocks] : n \in 0..MaxBlocks}}
SourceMessages == [role : Roles, content : Contents]
Requests ==
    [system : {<<>>, <<"s">>},
     messages : UNION {[1..n -> SourceMessages] : n \in 1..MaxMessages}]
Responses ==
    {d \in [hasMessage : BOOLEAN, hasContent : BOOLEAN,
            content : {<<>>, <<"a">>}, thinking : {<<>>, <<"t">>},
            done : BOOLEAN, eval_count : {0, 3}, prompt_eval_count : {0, 2}] :
        /\ ~d.hasContent => d.content = <<>>
        /\ ~d.hasMessage => ~d.hasContent /\ d.thinking = <<>>}

InitTranslate ==
    /\ apiKey = ""
    /\ apiKeys = SubSeq(KeyNames, 1, 1)
    /\ currentKeyIndex = 0
    /\ upstream = [k \in PoolKeys |-> Status(200)]
    /\ upstreamBody = [lines |-> <<>>, terminated |-> TRUE]
    /\ tracing = FALSE
    /\ call = [c \in Calls |-> IdleCall]

NextTranslate ==
    \/ /\ call[1].pc = "idle"
       /\ \E request \in Requests : ConvertRequest(1, "anthropic", request)
    \/ /\ call[1].pc = "idle"
       /\ \E request \in {r \in Requests : r.system = <<>>} :
              ConvertRequest(1, "openai", request)
    \/ /\ call[1].pc = "idle"
       /\ \E client \in Clients, data \in Responses :
              ConvertResponse(1, client, data)
    \/ Return(1)

SpecTranslate == InitTranslate /\ [][NextTranslate]_vars

\* ================================================================== claims
Done(c) == call[c].pc = "done"

\* C1: whenever the key pool is non-empty, under any interleaving of the
\* exchanges' dispatches and rotations, 0 <= cursor < pool size, so getApiKey
\* gives a key of the pool and every dispatch in flight carries one.
C1_CursorValid ==
    Len(apiKeys) > 0 =>
        /\ currentKeyIndex \in 0..(Len(apiKeys) - 1)
        /\ getApiKey(currentKeyIndex) \in PoolKeys
        /\ \A c \in Calls : call[c].pc = "fetching" => call[c].key \in PoolKeys

C1_Witness ==
    /\ Len(apiKeys) = 3
    /\ currentKeyIndex = 2
    /\ \A c \in Calls : call[c].pc = "fetching"

\* C2: with a pool of two keys, the cursor on key 1, upstream answering 401 to
\* key 1 and 200 to key 2, a non-streaming call run alone returns a response
\* and leaves the cursor on key 2.
C2_Scenario(c) ==
    /\ Len(apiKeys) = 2
    /\ upstream["key1"] = Status(401)
    /\ upstream["key2"] = Status(200)
    /\ call[c].kind = "send"
    /\ call[c].startIndex = 0

C2_RotatesToAcceptedKey ==
    \A c \in Calls :
        C2_Scenario(c) /\ Done(c) =>
            /\ call[c].result = "response"
            /\ call[c].response = 200
            /\ currentKeyIndex = 1
            /\ getApiKey(currentKeyIndex) = "key2"

C2_Witness ==
    /\ C2_Scenario(1)
    /\ Done(1)
    /\ call[1].log = <<Step("call", "", 0), Step("dispatch", "key1", 0),
                       Step("rotate", "key2", 0), Step("dispatch", "key2", 0)>>

\* C3 (as claimed): with a single key answered 429 on every dispatch, a
\* non-streaming call makes exactly 3 dispatches and fails with an error of
\* the rate-limit kind.
C3_Scenario(c) ==
    /\ Len(apiKeys) = 1
    /\ upstream["key1"] = Status(429)
    /\ call[c].kind = "send"

C3_RateLimitSurfaces ==
    \A c \in Calls :
        C3_Scenario(c) /\ Done(c) =>
            /\ Dispatches(call[c]) = 3
            /\ call[c].result = "error"
            /\ parseError(call[c].error) = "rate_limit_error"

\* C4 (as claimed): a call that fails after every key of the pool was
\* answered 401 raises an authentication error; one that fails after every
\* key of a multi-key pool was answered 429 raises a rate-limit error.
C4_ExhaustionIsTyped ==
    \A c \in Calls :
        Done(c) /\ call[c].result = "error" /\ Len(apiKeys) >= 1 =>
            /\ (\A k \in PoolKeys : upstream[k] = Status(401))
                   => parseError(call[c].error) = "authentication_error"
            /\ (Len(apiKeys) > 1 /\ \A k \in PoolKeys : upstream[k] = Status(429))
                   => parseError(call[c].error) = "rate_limit_error"

\* C5 (as claimed): a call whose first dispatch is answered with a non-2xx
\* status other than 401 and 429 makes exactly one dispatch and raises the
\* error carrying that status and the body.
C5_FirstAnswer(c) ==
    upstream[call[c].log[CHOOSE i \in 1..Len(call[c].log) :
                             /\ call[c].log[i].step = "dispatch"
                             /\ \A j \in 1..(i - 1) :
                                    call[c].log[j].step # "dispatch"].key]

C5_OtherStatusNotRetried ==
    \A c \in Calls :
        (/\ Done(c)
         /\ call[c].kind \in Kinds
         /\ Dispatches(call[c]) >= 1
         /\ C5_FirstAnswer(c).type = "status"
         /\ ~ok(C5_FirstAnswer(c).status)
         /\ C5_FirstAnswer(c).status \notin {401, 429})
        => /\ Dispatches(call[c]) = 1
           /\ call[c].result = "error"
           /\ call[c].error = ErrApi(C5_FirstAnswer(c).status)

\* ----------------------------------------------------- claims on the stream
Connected(cr) == cr.lock # "none"
Consumed(c) ==
    Done(c) /\ call[c].result = "stream" /\ call[c].wire = <<>>
IsPrefix(s, t) == Len(s) <= Len(t) /\ SubSeq(t, 1, Len(s)) = s
Malformed(line) == ~skipped(line) /\ ~parses(line)

\* the lines of the body that end with a newline
CompleteLines ==
    IF upstreamBody.terminated
        THEN upstreamBody.lines ELSE Front(upstreamBody.lines)

NewlinesIn(s) == Cardinality({i \in 1..Len(s) : s[i] = NL})

\* the complete lines among the bytes the call has received
CompleteReceived(cr) ==
    SubSeq(upstreamBody.lines, 1, NewlinesIn(cr.received))

RECURSIVE textOf(_)
textOf(events) ==
    IF events = <<>> THEN <<>>
    ELSE (IF Head(events).type = "content_block_delta"
              THEN Head(events).text ELSE <<>>) \o textOf(Tail(events))

\* the events of a sequence of lines, line after line
RECURSIVE eventsOf(_, _, _)
eventsOf(client, ls, content) ==
    IF ls = <<>> THEN <<>>
    ELSE LET evs == IF skipped(Head(ls)) \/ ~parses(Head(ls))
                        THEN <<>>
                        ELSE translate(client, JSONparse(Head(ls)), content)
         IN  evs \o eventsOf(client, Tail(ls),
                             IF client = "anthropic"
                                 THEN content \o textOf(evs) ELSE content)

\* C6: once a streaming call holds a response with a successful status it
\* makes no further dispatch, rotation or delay and the cursor stays; a
\* failing read ends it with an error; events are only ever added at the end
\* of what was yielded, from the same or a later line and never the same
\* event twice.
C6_NoReconnect ==
    [][\A c \in Calls :
          Connected(call[c]) =>
              /\ call'[c].log = call[c].log
              /\ currentKeyIndex' = currentKeyIndex
              /\ IsPrefix(call[c].yielded, call'[c].yielded)
              /\ IsPrefix(call[c].yieldedFrom, call'[c].yieldedFrom)
              /\ \A i \in 2..Len(call'[c].yieldedFrom) :
                     \/ call'[c].yieldedFrom[i - 1] < call'[c].yieldedFrom[i]
                     \/ /\ call'[c].yieldedFrom[i - 1] = call'[c].yieldedFrom[i]
                        /\ call'[c].yielded[i - 1].type # call'[c].yielded[i].type
              /\ call'[c].error # call[c].error =>
                     /\ call'[c].pc = "done"
                     /\ call'[c].result = "error"
                     /\ call'[c].yielded = call[c].yielded]_vars

C6_Witness ==
    /\ call[1].lock = "released"
    /\ call[1].error = ErrTerminated
    /\ Len(call[1].yielded) >= 2
    /\ Rotations(call[1]) = 1
    /\ Dispatches(call[1]) = 2

\* the bodies of C7: content lines, then one terminal line, all terminated
C7_Shape ==
    /\ upstreamBody.terminated
    /\ Len(upstreamBody.lines) >= 1
    /\ Last(upstreamBody.lines) = LineStop
    /\ \A i \in 1..(Len(upstreamBody.lines) - 1) :
           upstreamBody.lines[i] \in {LineA, LineB}

C7_DeltasThenTerminal(c) ==
    LET ls == upstreamBody.lines
        n == Len(ls) - 1
        y == call[c].yielded
    IN  /\ Len(y) = n + 1
        /\ \A i \in 1..n : isDelta(y[i]) /\ y[i].text = <<ls[i][2].v>>
        /\ isTerminal(y[n + 1])

C7_CarriesUsage(e) ==
    /\ e.hasUsage
    /\ e.input_tokens = 2
    /\ e.output_tokens = 3

C9_Clean == SelectSeq(CompleteLines, LAMBDA l : ~Malformed(l))

C9_MalformedLineSkipped ==
    \A c \in Calls :
        /\ Consumed(c) =>
               /\ call[c].yielded = eventsOf(call[c].client, C9_Clean, <<>>)
               /\ call[c].linesDone = Len(CompleteLines)
        /\ Connected(call[c]) /\ call[c].result = "error"
               => call[c].error = ErrTerminated
        /\ Connected(call[c]) /\ Done(c) /\ call[c].result = "stream"
               => call[c].wire = <<>>

C9_Witness ==
    /\ Consumed(1)
    /\ Len(CompleteLines) = 3
    /\ Malformed(CompleteLines[1])
    /\ call[1].yieldedFrom = <<2, 3>>

\* C10: events are yielded in the order of their lines, and none is held back
\* beyond the completion of its line: what has been yielded is always a
\* prefix of the events of the complete lines received, in order, and is all
\* of them whenever the call waits for more bytes or has read to the end.
C10_InOrderNotHeldBack ==
    \A c \in Calls :
        Connected(call[c]) =>
            LET cr == call[c]
                due == eventsOf(cr.client, CompleteReceived(cr), <<>>)
            IN  /\ IsPrefix(cr.yielded, due)
                /\ \A i \in 2..Len(cr.yieldedFrom) :
                       cr.yieldedFrom[i - 1] <= cr.yieldedFrom[i]
                /\ \A i \in 1..Len(cr.yieldedFrom) :
                       /\ cr.yieldedFrom[i] <= NewlinesIn(cr.received)
                       /\ \E k \in 1..2 :
                              /\ k <= Len(eventsOf(cr.client,
                                     <<upstreamBody.lines[cr.yieldedFrom[i]]>>, <<>>))
                              /\ eventsOf(cr.client,
                                     <<upstreamBody.lines[cr.yieldedFrom[i]]>>,
                                     <<>>)[k].type = cr.yielded[i].type
                /\ (cr.pc = "reading" \/ Consumed(c)) => cr.yielded = due

C10_Witness ==
    /\ call[1].pc = "reading"
    /\ call[1].wire # <<>>
    /\ call[1].buffer # <<>>
    /\ call[1].yieldedFrom = <<1, 2>>

\* the events the call has yielded from line i of the body
EventsFrom(cr, i) ==
    LET ks == {k \in 1..Len(cr.yieldedFrom) : cr.yieldedFrom[k] = i}
    IN  IF ks = {} THEN <<>>
        ELSE SubSeq(cr.yielded,
                    CHOOSE k \in ks : \A h \in ks : k <= h,
                    CHOOSE k \in ks : \A h \in ks : k >= h)

\* the rendered text of a line: thinking, a blank line, content, or whichever
\* of the two is there
C11_Rendered(data) ==
    IF data.thinking # <<>>
        THEN data.thinking \o
             (IF data.content # <<>> THEN <<"\n\n">> \o data.content ELSE <<>>)
        ELSE data.content

C11_Follows(events, data) ==
    IF data.done
        THEN Len(events) = 1 /\ isTerminal(events[1])
    ELSE IF C11_Rendered(data) # <<>>
        THEN /\ Len(events) = 1
             /\ isDelta(events[1])
             /\ events[1].text = C11_Rendered(data)
    ELSE events = <<>>

\* C11 (as claimed): every streaming translator classifies a parsed line by
\* the same rule: done=true gives one terminal event; done false with a
\* non-empty rendered text gives one content-delta carrying that text; done
\* false with an empty rendered text gives nothing.
C11_SameClassification ==
    \A c \in Calls :
        Consumed(c) =>
            \A i \in 1..Len(CompleteLines) :
                parses(CompleteLines[i]) =>
                    /\ C11_Follows(EventsFrom(call[c], i),
                                   JSONparse(CompleteLines[i]))
                    /\ C11_Follows(
                           convertOllamaStreamToAnthropic(JSONparse(CompleteLines[i])),
                           JSONparse(CompleteLines[i]))

\* C12: the terminal events a stream yields are those of its parsed lines
\* with done=true, one each; a stream whose input ends without such a line
\* ends without a terminal event, and without an error.
C12_DoneLines ==
    {i \in 1..Len(CompleteLines) :
         parses(CompleteLines[i]) /\ JSONparse(CompleteLines[i]).done}

C12_Terminals(cr) == {k \in 1..Len(cr.yielded) : isTerminal(cr.yielded[k])}

C12_NoFabricatedTerminal ==
    \A c \in Calls :
        /\ Connected(call[c]) =>
               /\ Cardinality(C12_Terminals(call[c])) <= Cardinality(C12_DoneLines)
               /\ \A k \in C12_Terminals(call[c]) :
                      call[c].yieldedFrom[k] \in C12_DoneLines
        /\ Consumed(c) =>
               /\ Cardinality(C12_Terminals(call[c])) = Cardinality(C12_DoneLines)
               /\ call[c].error = NoError

C12_Witness ==
    /\ Consumed(1)
    /\ C12_DoneLines = {}
    /\ Len(CompleteLines) = 2
    /\ Len(call[1].yielded) = 2
    /\ C12_Terminals(call[1]) = {}

\* C13: from cursor 0, after n calls of rotateApiKey on a pool of k >= 1 keys
\* the cursor is n mod k (from any cursor s, (s + n) mod k); with one key it
\* stays 0.
C13_RotationIsModulo ==
    \A c \in Calls :
        call[c].kind # "none" /\ Len(apiKeys) >= 1 =>
            /\ currentKeyIndex =
                   (call[c].startIndex + Rotations(call[c])) % Len(apiKeys)
            /\ call[c].startIndex = 0
                   => currentKeyIndex = Rotations(call[c]) % Len(apiKeys)
            /\ Len(apiKeys) = 1 => currentKeyIndex = 0

C13_Witness ==
    /\ Len(apiKeys) = 3
    /\ call[1].startIndex = 0
    /\ Rotations(call[1]) = 7
    /\ currentKeyIndex = 1

\* ------------------------------------------------ claims on the per-key loop
\* the cursor one place on, cyclically
Advanced ==
    IF Len(apiKeys) > 0
        THEN (currentKeyIndex + 1) % Len(apiKeys) ELSE currentKeyIndex

\* what the step has added to the log of call c
Added(c) ==
    SubSeq(call'[c].log, Len(call[c].log) + 1, Len(call'[c].log))

\* the dispatch of call c is answered in this step
Answered(c) == call[c].pc = "fetching" /\ call'[c] # call[c]

\* C14: in the per-key loop a 401 advances the cursor and, if attempts
\* remain, the next dispatch follows in the same step with no delay; a 429
\* with more than one key advances the cursor and a delay of the fixed length
\* comes before anything else; a 429 with a single key neither rotates nor
\* dispatches again inside the loop: the response goes to the caller.
C14_PerKeyResponses ==
    [][\A c \in Calls :
          Answered(c) /\ upstream[call[c].key].type = "status" =>
              /\ upstream[call[c].key].status = 401 =>
                     /\ currentKeyIndex' = Advanced
                     /\ Len(Added(c)) >= 1
                     /\ Added(c)[1] = Step("rotate", apiKeys[Advanced + 1], 0)
                     /\ call[c].keyAttempt + 1 < Len(apiKeys) =>
                            /\ Added(c) = <<Step("rotate", apiKeys[Advanced + 1], 0),
                                            Step("dispatch", apiKeys[Advanced + 1], 0)>>
                            /\ call'[c].pc = "fetching"
                            /\ call'[c].key = apiKeys[Advanced + 1]
              /\ upstream[call[c].key].status = 429 /\ Len(apiKeys) > 1 =>
                     /\ currentKeyIndex' = Advanced
                     /\ Added(c) = <<Step("rotate", apiKeys[Advanced + 1], 0),
                                     Step("sleep", "", 1000)>>
                     /\ call'[c].pc = "waiting"
              /\ upstream[call[c].key].status = 429 /\ Len(apiKeys) = 1 =>
                     /\ currentKeyIndex' = currentKeyIndex
                     /\ call'[c].keyAttempt = call[c].keyAttempt
                     /\ call'[c].response = 429
                     /\ \A i \in 1..Len(Added(c)) :
                            Added(c)[i].step \notin {"rotate", "dispatch"}]_vars

C14_Witness ==
    /\ Len(apiKeys) = 2
    /\ call[1].kind = "list"
    /\ call[1].log = <<Step("call", "", 0), Step("dispatch", "key1", 0),
                       Step("rotate", "key2", 0), Step("dispatch", "key2", 0),
                       Step("rotate", "key1", 0), Step("sleep", "", 1000)>>

\* the key of the latest dispatch of the call
LastDispatched(cr) ==
    cr.log[CHOOSE i \in 1..Len(cr.log) :
               /\ cr.log[i].step = "dispatch"
               /\ \A j \in (i + 1)..Len(cr.log) : cr.log[j].step # "dispatch"].key

\* the dispatch of call c fails in this step with a transient network error
C15_NetworkFailure(c) ==
    /\ Answered(c)
    /\ upstream[call[c].key].type = "throw"
    /\ isNetworkError(upstream[call[c].key].error)

\* the backoff after a network failure of call c ends in this step
C15_BackoffEnds(c) ==
    /\ call[c].pc = "waiting"
    /\ call[c].resume = "inner"
    /\ call'[c] # call[c]
    /\ upstream[LastDispatched(call[c])].type = "throw"

C15_Rotates(c) ==
    /\ Len(apiKeys) > 1 =>
           /\ currentKeyIndex' = Advanced
           /\ Added(c) = <<Step("rotate", apiKeys[Advanced + 1], 0),
                           Step("sleep", "", RETRY_DELAY_MS)>>
           /\ call'[c].pc = "waiting"
    /\ Len(apiKeys) = 1 =>
           /\ currentKeyIndex' = currentKeyIndex
           /\ call'[c].keyAttempt = call[c].keyAttempt
           /\ \A i \in 1..Len(Added(c)) : Added(c)[i].step # "rotate"
           /\ Added(c) # <<>> => Added(c)[1].step # "dispatch"
           /\ call[c].kind \in {"list", "stream"} =>
                  /\ Added(c) = <<>>
                  /\ call'[c].pc = "done"
                  /\ call'[c].error = upstream[call[c].key].error

C15_DispatchesAgain(c) ==
    /\ Added(c) = <<Step("dispatch", apiKeys[currentKeyIndex + 1], 0)>>
    /\ call'[c].pc = "fetching"
    /\ call'[c].key = apiKeys[currentKeyIndex + 1]
    /\ currentKeyIndex' = currentKeyIndex

\* C15 (as claimed): a transient network error with more than one key
\* advances the cursor, then the fixed backoff is waited, then the loop
\* dispatches again with the key at the cursor; with one key the error is
\* raised out of the loop without rotation or delay.
C15_AlwaysDispatchesAgain ==
    [][\A c \in Calls :
          /\ C15_NetworkFailure(c) => C15_Rotates(c)
          /\ C15_BackoffEnds(c) => C15_DispatchesAgain(c)]_vars

\* C15 (amended): as claimed, but the dispatch after the backoff is made only
\* if attempts remain in the per-key loop; after the backoff of its last
\* attempt the loop raises the network error and dispatches no more.
C15_DispatchesAgainIfAttemptsRemain ==
    [][\A c \in Calls :
          /\ C15_NetworkFailure(c) => C15_Rotates(c)
          /\ C15_BackoffEnds(c) =>
                 IF call[c].keyAttempt < Len(apiKeys)
                     THEN C15_DispatchesAgain(c)
                     ELSE /\ currentKeyIndex' = currentKeyIndex
                          /\ Added(c) # <<>> => Added(c)[1].step # "dispatch"
                          /\ call[c].kind = "list" =>
                                 /\ Added(c) = <<>>
                                 /\ call'[c].pc = "done"
                                 /\ call'[c].error =
                                        upstream[LastDispatched(call[c])].error]_vars

C15_Witness ==
    /\ Len(apiKeys) = 2
    /\ call[1].kind = "list"
    /\ upstream["key1"] = Thrown(<<"fetch failed">>)
    /\ call[1].pc = "fetching"
    /\ call[1].log = <<Step("call", "", 0), Step("dispatch", "key1", 0),
                       Step("rotate", "key2", 0),
                       Step("sleep", "", RETRY_DELAY_MS),
                       Step("dispatch", "key2", 0)>>

\* the runs of the per-key loop in a log: each starts at a "call" entry and
\* reaches to the entry before the next one
RunStarts(log) == {i \in 1..Len(log) : log[i].step = "call"}
RunEnd(log, i) ==
    IF \E j \in RunStarts(log) : j > i
        THEN (CHOOSE j \in RunStarts(log) :
                  j > i /\ \A h \in RunStarts(log) : h > i => j <= h) - 1
        ELSE Len(log)
RunCount(log, i, kind) ==
    Cardinality({j \in i..RunEnd(log, i) : log[j].step = kind})
MaxOf(a, b) == IF a >= b THEN a ELSE b

\* C16: one run of the per-key loop over a pool of k keys makes at most
\* max(k, 1) dispatches whatever upstream answers; a run that is over has
\* handed a response or an error to its caller, and a call that is over has
\* returned or raised an error.
C16_RunIsBounded ==
    \A c \in Calls :
        /\ \A i \in RunStarts(call[c].log) :
               RunCount(call[c].log, i, "dispatch") <= MaxOf(Len(apiKeys), 1)
        /\ call[c].pc = "fetching" => call[c].keyAttempt < MaxOf(Len(apiKeys), 1)
        /\ Done(c) =>
               \/ call[c].result \in {"response", "stream", "abandoned"}
               \/ call[c].result = "error" /\ call[c].error # NoError

C16_Witness ==
    /\ Len(apiKeys) = 3
    /\ Cardinality(RunStarts(call[1].log)) = 2
    /\ RunCount(call[1].log, 1, "dispatch") = 3
    /\ RunCount(call[1].log, 1, "sleep") = 2

\* C17: a non-streaming call runs the per-key loop at most MAX_RETRIES times
\* and so makes at most MAX_RETRIES * max(k, 1) dispatches; if every fetch
\* and every delay completes it comes to its end, returning a response or
\* raising an error.
C17_Bounded(c) ==
    call[c].kind = "send" =>
        /\ Cardinality(RunStarts(call[c].log)) <= MAX_RETRIES
        /\ Dispatches(call[c]) <= MAX_RETRIES * MaxOf(Len(apiKeys), 1)
        /\ Done(c) =>
               \/ call[c].result = "response"
               \/ call[c].result = "error" /\ call[c].error # NoError

C17_SendTerminates ==
    /\ [](\A c \in Calls : C17_Bounded(c))
    /\ \A c \in Calls :
           (call[c].kind = "send") ~> (call[c].kind = "send" /\ Done(c))

C17_Witness ==
    /\ Len(apiKeys) = 3
    /\ call[1].kind = "send"
    /\ Done(1)
    /\ call[1].result = "error"
    /\ Cardinality(RunStarts(call[1].log)) = 3
    /\ Dispatches(call[1]) = 9

\* C18 (as claimed): a streaming call over k >= 1 keys that never obtains a
\* successful status makes at most k dispatches in all before it raises its
\* error.
C18_StreamOnePass ==
    \A c \in Calls :
        (/\ call[c].kind = "stream"
         /\ Len(apiKeys) >= 1
         /\ Done(c)
         /\ call[c].result = "error"
         /\ ~Connected(call[c]))
        => Dispatches(call[c]) <= Len(apiKeys)

\* the last run of the per-key loop in the log of a call
LastRun(log) == CHOOSE i \in RunStarts(log) : \A j \in RunStarts(log) : j <= i

\* the latest dispatch of the call was rejected by upstream and the per-key
\* loop went on from it: 401, or 429 with more than one key
C19_LastRejected(cr) ==
    /\ \E i \in 1..Len(cr.log) : cr.log[i].step = "dispatch"
    /\ upstream[LastDispatched(cr)].type = "status"
    /\ \/ upstream[LastDispatched(cr)].status = 401
       \/ upstream[LastDispatched(cr)].status = 429 /\ Len(apiKeys) > 1

C19_ThrewInLastRun(cr) ==
    \E j \in LastRun(cr.log)..Len(cr.log) :
        cr.log[j].step = "dispatch" /\ upstream[cr.log[j].key].type = "throw"

\* C19 (as claimed): the error the per-key loop raises after exhausting its
\* attempts is that of its most recent attempt: when the latest attempts were
\* rejected with 401 or 429 it is not a network error thrown on an earlier
\* attempt; 'All API keys exhausted' is raised only when no attempt of the
\* run threw.
C19_LastFailureRaised ==
    \A c \in Calls :
        Done(c) /\ call[c].result = "error" /\ C19_LastRejected(call[c]) =>
            /\ \A k \in PoolKeys :
                   upstream[k].type = "throw" => call[c].error # upstream[k].error
            /\ call[c].error = ErrExhausted => ~C19_ThrewInLastRun(call[c])

\* C20 (as claimed): with an empty key pool every dispatch operation makes no
\* upstream request and fails with 'No API key configured'.
C20_EmptyPoolIsConfigurationError ==
    \A c \in Calls :
        Len(apiKeys) = 0 /\ call[c].kind # "none" =>
            /\ Dispatches(call[c]) = 0
            /\ call[c].pc # "fetching"
            /\ Done(c) => call[c].result = "error" /\ call[c].error = ErrNoKey

\* every key of the pool is answered with a transient network error
C21_AllTransient ==
    /\ Len(apiKeys) >= 1
    /\ \A k \in PoolKeys :
           upstream[k].type = "throw" /\ isNetworkError(upstream[k].error)

\* C21: when every dispatch throws a transient network error, a non-streaming
\* call over k >= 1 keys makes MAX_RETRIES * k dispatches in all and then
\* raises that network error itself.
C21_TransientErrorSurfaces ==
    \A c \in Calls :
        C21_AllTransient /\ call[c].kind = "send" =>
            /\ Dispatches(call[c]) <= MAX_RETRIES * Len(apiKeys)
            /\ Done(c) =>
                   /\ Dispatches(call[c]) = MAX_RETRIES * Len(apiKeys)
                   /\ call[c].result = "error"
                   /\ isNetworkError(call[c].error)
                   /\ \E k \in PoolKeys : call[c].error = upstream[k].error

C21_Witness ==
    /\ C21_AllTransient
    /\ Len(apiKeys) = 3
    /\ call[1].kind = "send"
    /\ Done(1)
    /\ Dispatches(call[1]) = 9
    /\ call[1].error = <<"fetch failed">>

\* the answer to the dispatch of call c is one the per-key loop rotates on
C22_Rotating(c) ==
    /\ Len(apiKeys) > 1
    /\ \/ /\ upstream[call[c].key].type = "status"
          /\ upstream[call[c].key].status \in {401, 429}
       \/ /\ upstream[call[c].key].type = "throw"
          /\ isNetworkError(upstream[call[c].key].error)

\* C22: the cursor changes only in a step that answers a dispatch with 401,
\* 429 or a transient network error while the pool has more than one key, and
\* then it moves one place on; any other answer, any answer on a single-key
\* pool, and every step of reading and translating a stream leave it as it is.
C22_OnlyRotationMovesCursor ==
    [][/\ currentKeyIndex' # currentKeyIndex =>
              /\ currentKeyIndex' = Advanced
              /\ \E c \in Calls : Answered(c) /\ C22_Rotating(c)
       /\ \A c \in Calls :
              /\ Answered(c) /\ ~C22_Rotating(c) => currentKeyIndex' = currentKeyIndex
              /\ Connected(call[c]) /\ call'[c] # call[c]
                     => currentKeyIndex' = currentKeyIndex]_vars

C22_Witness ==
    /\ Len(apiKeys) = 3
    /\ upstream["key1"] = Status(401)
    /\ upstream["key2"] = Status(500)
    /\ call[1].kind = "send"
    /\ Done(1)
    /\ Dispatches(call[1]) = 4
    /\ Rotations(call[1]) = 1
    /\ currentKeyIndex = 1

\* call c makes a dispatch in this step
Dispatched(c) == call'[c].pc = "fetching" /\ call'[c] # call[c]

\* C23: every dispatch carries the pool key at the cursor as the cursor stands
\* at the instant of the dispatch, whatever the other exchanges have done to
\* the cursor meanwhile; the first dispatch of a call carries the key at the
\* cursor as it stands when the call starts; every request in flight carries
\* a key of the pool.
C23_DispatchCarriesCursorKey ==
    [][\A c \in Calls :
          /\ Dispatched(c) =>
                 /\ Len(apiKeys) >= 1
                 /\ currentKeyIndex' \in 0..(Len(apiKeys) - 1)
                 /\ call'[c].key = apiKeys[currentKeyIndex' + 1]
                 /\ call[c].pc = "idle" =>
                        /\ currentKeyIndex' = currentKeyIndex
                        /\ call'[c].key = apiKeys[currentKeyIndex + 1]
          /\ call'[c].pc = "fetching" => call'[c].key \in PoolKeys]_vars

C23_Witness ==
    /\ Len(apiKeys) = 3
    /\ currentKeyIndex = 2
    /\ call[1].pc = "fetching"
    /\ call[1].key = "key3"
    /\ call[1].kind = "stream"
    /\ call[1].keyAttempt = 1
    /\ call[1].attempt = 0
    /\ call[1].startIndex = 0
    /\ call[2].pc = "waiting"
    /\ call[2].keyAttempt = 1

\* the rotations made by the calls 1..n together
RECURSIVE RotationsUpTo(_)
RotationsUpTo(n) ==
    IF n = 0 THEN 0 ELSE Rotations(call[n]) + RotationsUpTo(n - 1)

\* C24: the rotations of concurrent exchanges count as increments of one
\* shared counter: from cursor 0, once the exchanges have together made n
\* rotations on a pool of k > 1 keys, in any interleaving, the cursor is
\* n mod k.
C24_SharedCounter ==
    Len(apiKeys) > 1 =>
        currentKeyIndex = RotationsUpTo(NumCalls) % Len(apiKeys)

C24_Witness ==
    /\ Len(apiKeys) = 3
    /\ Rotations(call[1]) = 2
    /\ Rotations(call[2]) = 2
    /\ call[1].pc = "waiting"
    /\ call[2].pc = "fetching"
    /\ currentKeyIndex = 1

\* ---- converters
Converted(c, kind) == call[c].pc = "done" /\ call[c].kind = kind

\* the target messages made from the i-th source message
From(cr, i) == {j \in 1..Len(cr.made.messages) : cr.made.messages[j].from = i}

\* C25: of a response body with a thinking field, both response translators
\* render thinking, two newlines, content when content is non-empty, and
\* thinking alone when content is empty.
C25_ThinkingBeforeContent ==
    \A c \in Calls :
        Converted(c, "response") /\ call[c].given.thinking # <<>> =>
            call[c].made.text =
                call[c].given.thinking
                    \o (IF call[c].given.content # <<>>
                            THEN <<"\n\n">> \o call[c].given.content
                            ELSE <<>>)

\* a content that is a list of text blocks and nothing else
SolelyText(msg) ==
    /\ msg.content.type = "array"
    /\ Len(msg.content.blocks) >= 1
    /\ \A k \in 1..Len(msg.content.blocks) : msg.content.blocks[k].type = "text"

\* the block texts one after the other
RECURSIVE Concatenation(_)
Concatenation(blocks) ==
    IF blocks = <<>> THEN <<>>
    ELSE Head(blocks).text \o Concatenation(Tail(blocks))

\* every message of text blocks has its one target message, whose content is
\* the concatenation
C26_TextBlocksConcatenated ==
    \A c \in Calls :
        Converted(c, "request") /\ call[c].client = "anthropic" =>
            \A i \in 1..Len(call[c].given.messages) :
                SolelyText(call[c].given.messages[i]) =>
                    /\ Cardinality(From(call[c], i)) = 1
                    /\ \A j \in From(call[c], i) :
                           call[c].made.messages[j].content =
                               Concatenation(call[c].given.messages[i].content.blocks)

\* C26: of an Anthropic request, each message whose content is a list made
\* solely of text blocks, the texts of which are not all empty, is translated
\* to one target message whose content is the block texts in their order with
\* nothing between them; when the texts are all empty the message has no
\* target message.
C26_NonEmptyTextBlocksConcatenated ==
    \A c \in Calls :
        Converted(c, "request") /\ call[c].client = "anthropic" =>
            \A i \in 1..Len(call[c].given.messages) :
                LET msg == call[c].given.messages[i]
                IN  SolelyText(msg) =>
                        IF Concatenation(msg.content.blocks) # <<>>
                            THEN /\ Cardinality(From(call[c], i)) = 1
                                 /\ \A j \in From(call[c], i) :
                                        call[c].made.messages[j].content =
                                            Concatenation(msg.content.blocks)
                            ELSE From(call[c], i) = {}

C26_Witness ==
    /\ Converted(1, "request")
    /\ call[1].client = "anthropic"
    /\ call[1].given.messages =
           <<[role |-> "assistant", content |-> Array(<<TextBlock("")>>)],
             [role |-> "user",
              content |-> Array(<<TextBlock("b"), TextBlock("a")>>)]>>
    /\ call[1].made.messages = <<Message("user", <<"b", "a">>, 2)>>

\* C27: from either source schema, a message whose role is not a recognized
\* one (for example 'tool') gives a target message of role 'user'.
C27_UnknownRoleCollapses ==
    \A c \in Calls :
        Converted(c, "request") =>
            \A i \in 1..Len(call[c].given.messages) :
                call[c].given.messages[i].role \notin {"user", "assistant", "system"} =>
                    \A j \in From(call[c], i) :
                        call[c].made.messages[j].role = "user"

\* ---- the reader's lock
\* C28: in a streaming call, once the body reader has been acquired, its lock
\* is held for as long as the read loop runs and is released exactly once on
\* every way out of it: end of input, a read that throws, and the consumer
\* abandoning the sequence.
C28_LockReleasedOnce ==
    \A c \in Calls :
        call[c].kind = "stream" =>
            /\ call[c].lock = "none" => call[c].releases = 0
            /\ call[c].lock = "held" <=> call[c].pc \in {"reading", "yielded"}
            /\ call[c].lock = "held" => call[c].releases = 0
            /\ call[c].lock = "released" => Done(c) /\ call[c].releases = 1
            /\ Done(c) /\ Connected(call[c]) =>
                   call[c].lock = "released" /\ call[c].releases = 1

C28_Witness ==
    /\ Done(1)
    /\ call[1].kind = "stream"
    /\ call[1].result = "abandoned"
    /\ Len(call[1].yielded) = 1
    /\ call[1].wire # <<>>
    /\ call[1].lock = "released"
    /\ call[1].releases = 1

\* ---- the front door
\* C29: GET /v1/models and POST /v1/messages agree on whether a key is
\* configured: when the pool is non-empty after the configuration load, GET
\* /v1/models dispatches to upstream and does not answer 401 'API key
\* required'.
C29_ModelsRouteSeesThePool ==
    \A c \in Calls :
        /\ call[c].route = "models"
        /\ call[c].pc = "replied"
        /\ Len(apiKeys) > 0
        => /\ call[c].reply # ErrKeyRequired
           /\ Dispatches(call[c]) >= 1

\* ---- the two 429 waits
\* C30: the per-key loop never hands back a 401, and hands back a 429 only
\* when the pool has at most one key; so the outer envelope's 429 wait of
\* RETRY_DELAY_MS * (attempt + 1) happens only with a single-key pool, in a
\* step in which the per-key loop has neither rotated nor delayed.
C30_OuterWaitOnlyForSingleKey ==
    [][\A c \in Calls :
          /\ call'[c].response # 401
          /\ call'[c].response = 429 => Len(apiKeys) <= 1
          /\ /\ Answered(c)
             /\ upstream[call[c].key] = Status(429)
             /\ call'[c].pc = "waiting"
             /\ call'[c].resume = "outer"
             => /\ Len(apiKeys) = 1
                /\ call[c].kind = "send"
                /\ call'[c].response = 429
                /\ currentKeyIndex' = currentKeyIndex
                /\ Added(c) = <<Step("sleep", "", RETRY_DELAY_MS * (call[c].attempt + 1))>>]_vars

C30_Witness ==
    /\ Len(apiKeys) = 1
    /\ call[1].kind = "send"
    /\ call[1].pc = "waiting"
    /\ call[1].resume = "outer"
    /\ call[1].response = 429
    /\ call[1].attempt = 2
    /\ Dispatches(call[1]) = 2
    /\ Rotations(call[1]) = 0

\* ---- a run in which every attempt is rejected
\* upstream rejects the dispatch and the per-key loop goes on from it
Rejects(o) ==
    \/ o.type = "status" /\ o.status \in {401, 429}
    \/ o.type = "throw" /\ isNetworkError(o.error)

IsDispatch(entry) == entry.step = "dispatch"

\* the keys dispatched in the run that starts at entry i, in order
RunKeys(log, i) ==
    LET ds == SelectSeq(SubSeq(log, i, RunEnd(log, i)), IsDispatch)
    IN  [j \in 1..Len(ds) |-> ds[j].key]

KeyIndex(key) == CHOOSE i \in 1..Len(apiKeys) : apiKeys[i] = key

\* the run that starts at entry i has left the per-key loop
RunOver(cr, i) ==
    \/ RunEnd(cr.log, i) < Len(cr.log)
    \/ /\ cr.pc # "fetching"
       /\ ~(cr.pc = "waiting" /\ cr.resume = "inner")

\* C31: one exchange at a time, pool of k > 1 keys, every attempt rejected
\* (401, 429 or transient network error): a run of the per-key loop
\* dispatches the keys in cyclic order from the key at the cursor, each at
\* most once; a run that is over has dispatched each of the k keys exactly
\* once and has left the cursor where it was when the run started.
C31_FullCycle ==
    \A c \in Calls :
        (Len(apiKeys) > 1 /\ \A k \in PoolKeys : Rejects(upstream[k])) =>
            \A i \in RunStarts(call[c].log) :
                LET keys == RunKeys(call[c].log, i)
                    first == call[c].startIndex
                IN  /\ Len(keys) \in 1..Len(apiKeys)
                    /\ \A j \in 1..Len(keys) :
                           keys[j] = apiKeys[((first + j - 1) % Len(apiKeys)) + 1]
                    /\ RunOver(call[c], i) =>
                           /\ Len(keys) = Len(apiKeys)
                           /\ RunCount(call[c].log, i, "rotate") = Len(apiKeys)
                           /\ i = LastRun(call[c].log) => currentKeyIndex = first

C31_Witness ==
    /\ Len(apiKeys) = 3
    /\ \A k \in PoolKeys : Rejects(upstream[k])
    /\ upstream["key1"] = Status(401)
    /\ upstream["key2"] = Status(429)
    /\ upstream["key3"] = Thrown(<<"fetch failed">>)
    /\ call[1].kind = "list"
    /\ call[1].startIndex = 1
    /\ Done(1)
    /\ RunKeys(call[1].log, 1) = <<"key2", "key3", "key1">>
    /\ currentKeyIndex = 1

\* ---- concurrent calls and an accepted key
\* C32: concurrent non-streaming calls on a shared pool in which some key is
\* always accepted and every other key is always rejected (401 or 429):
\* every call that is over has returned a response; none has failed with
\* 'All API keys exhausted'.
C32_AcceptedKeyIsFound ==
    \A c \in Calls :
        call[c].kind = "send" /\ Done(c) =>
            /\ call[c].result = "response"
            /\ call[c].error # ErrExhausted

\* ---- chunking
\* C33: the events a streaming call yields depend only on the bytes
\* received, not on how they are split into read chunks: a call that reads the
\* body in chunks of any sizes, boundaries in the middle of a line included,
\* yields the events of the call that read it as one chunk, in the same
\* order.
C33_ChunkingIndependent ==
    (call[1].pc = "done" /\ call[2].kind = "stream") =>
        /\ IsPrefix(call[2].yielded, call[1].yielded)
        /\ call[2].pc = "done" => call[2].yielded = call[1].yielded

C33_Witness ==
    /\ upstreamBody = [lines |-> <<LineA, LineStopA, LineB>>, terminated |-> TRUE]
    /\ call[1].pc = "done"
    /\ call[2].pc = "done"
    /\ call[2].client = "anthropic"
    /\ Len(call[2].yielded) = 4
    /\ call[2].yielded = call[1].yielded

\* ---- the residue
\* C34: what is received after the last newline is never parsed: at the end
\* of input it is still in the buffer and is discarded, so a final line
\* without its newline gives no event, a complete terminal line with
\* done=true included.
C34_ResidueDiscarded ==
    \A c \in Calls :
        (/\ Consumed(c)
         /\ ~upstreamBody.terminated
         /\ Len(upstreamBody.lines) >= 1) =>
            /\ call[c].buffer = Last(upstreamBody.lines)
            /\ call[c].linesDone = Len(upstreamBody.lines) - 1
            /\ \A i \in 1..Len(call[c].yieldedFrom) :
                   call[c].yieldedFrom[i] < Len(upstreamBody.lines)
            /\ call[c].yielded =
                   eventsOf(call[c].client, Front(upstreamBody.lines), <<>>)

C34_Witness ==
    /\ Consumed(1)
    /\ upstreamBody = [lines |-> <<LineA, LineStop>>, terminated |-> FALSE]
    /\ call[1].buffer = LineStop
    /\ Len(call[1].yielded) = 1
    /\ isDelta(call[1].yielded[1])

\* ---- the accumulated text
\* C35: in the Anthropic streaming path the text of the message content of a
\* message_stop event is the concatenation, in order, of the texts of all the
\* content_block_delta events yielded before it in the stream, a delta from
\* the same line included.
C35_StopCarriesAllText ==
    \A c \in Calls :
        call[c].kind = "stream" /\ call[c].client = "anthropic" =>
            \A i \in 1..Len(call[c].yielded) :
                call[c].yielded[i].type = "message_stop" =>
                    call[c].yielded[i].text =
                        textOf(SubSeq(call[c].yielded, 1, i - 1))

C35_Witness ==
    /\ call[1].client = "anthropic"
    /\ upstreamBody.lines = <<LineA, LineB, LineStopA>>
    /\ Len(call[1].yielded) = 4
    /\ call[1].yieldedFrom = <<1, 2, 3, 3>>
    /\ call[1].yielded[4].type = "message_stop"
    /\ call[1].yielded[4].text = <<"a", "b", "a">>

\* ---- the two clients
\* C36: the Anthropic client and the OpenAI client implement the same
\* transport: for the same pool, cursor and upstream outcomes they make the
\* same dispatches, rotations and delays in the same order and end alike, with
\* the response handed on or the same error, an empty pool included.
C36_SameTransport ==
    (/\ Settled(1)
     /\ Settled(2)
     /\ call[1].client = "anthropic"
     /\ call[2].client = "openai") =>
        /\ call[2].kind = call[1].kind
        /\ call[2].log = call[1].log
        /\ call[2].pc = call[1].pc
        /\ call[2].result = call[1].result
        /\ call[2].response = call[1].response
        /\ call[2].error = call[1].error

\* ---- the streamed reply
Streaming(c) == call[c].route = "messages" /\ call[c].kind = "stream"

ErrorFrames(written) == {i \in 1..Len(written) : written[i].event = "error"}

\* C37: a streaming POST /v1/messages has status 200 and its headers sent
\* from the step that makes the first upstream dispatch; a failure of the
\* streaming call is written as exactly one 'error' frame, the last one, and
\* the status stays 200; a stream that does not fail writes no 'error'
\* frame; every request's response is ended once when replied, never before
\* and never twice.
C37_StreamFailureIsOneErrorEvent ==
    \A c \in Calls :
        /\ call[c].ends <= 1
        /\ call[c].route # "none" => (call[c].ends = 1 <=> call[c].pc = "replied")
        /\ Streaming(c) =>
              /\ call[c].headersSent
              /\ call[c].status = 200
              /\ ErrorFrames(call[c].written) =
                     IF call[c].pc = "replied" /\ call[c].result = "error"
                         THEN {Len(call[c].written)}
                         ELSE {}

\* a streaming request whose keys were all refused before any event has been
\* answered
C37_Witness ==
    /\ Streaming(1)
    /\ call[1].pc = "replied"
    /\ call[1].result = "error"
    /\ Dispatches(call[1]) >= 2
    /\ call[1].yielded = <<>>
    /\ Len(call[1].written) = 1
    /\ call[1].written[1].event = "error"
    /\ call[1].status = 200
    /\ call[1].ends = 1

\* positions of the frames of the given names
FramesNamed(written, names) ==
    {i \in 1..Len(written) : written[i].event \in names}

\* a message_start frame precedes every content_block_start and
\* content_block_delta frame
MessageStartFirst(written) ==
    \A i \in FramesNamed(written, {"content_block_start", "content_block_delta"}) :
        \E j \in FramesNamed(written, {"message_start"}) : j < i

\* every content_block_delta frame lies in an open block: after a
\* content_block_start with no content_block_stop in between, and before a
\* content_block_stop with no content_block_start in between
DeltasBracketed(written) ==
    \A i \in FramesNamed(written, {"content_block_delta"}) :
        /\ \E j \in FramesNamed(written, {"content_block_start"}) :
               /\ j < i
               /\ FramesNamed(written, {"content_block_stop"}) \cap (j..i) = {}
        /\ \E k \in FramesNamed(written, {"content_block_stop"}) :
               /\ i < k
               /\ FramesNamed(written, {"content_block_start"}) \cap (i..k) = {}

\* C38: in the frames written for a streaming POST /v1/messages, message_start
\* comes before the first content_block_start / content_block_delta, and
\* every content_block_delta lies between a content_block_start and a
\* content_block_stop.
C38_FramesInAnthropicOrder ==
    \A c \in Calls :
        Streaming(c) =>
            /\ MessageStartFirst(call[c].written)
            /\ DeltasBracketed(call[c].written)

====
